---- MODULE Spec2Model ----
(***************************************************************************)
(* Model of the format-capability and limits-compatibility resolver of     *)
(* wgpu-types (src/wgpu-types/src/lib.rs): the Limit Comparator            *)
(* (Limits::check_limits, Limits::check_limits_with_fail_fn) and the       *)
(* texture-format classifiers (aspect_specific_format, sample_type,        *)
(* guaranteed_format_features).                                            *)
(*                                                                         *)
(* The functions are pure; each is an operator computed the way the code   *)
(* computes it.  A specification draws the inputs of one call in Init and  *)
(* has one action per public function, which applies it to the inputs.     *)
(***************************************************************************)
EXTENDS Integers, Sequences, FiniteSets, TLC

VARIABLES
    op,             \* the function that was called, "idle" before the call
    requested,      \* Limits: self of check_limits / check_limits_with_fail_fn
    allowed,        \* Limits: the `allowed` argument
    fatal,          \* the `fatal` argument of check_limits_with_fail_fn
    within,         \* the bool check_limits returned
    reports,        \* the calls made to fail_fn, in order: [name, self, allowed]
    compared,       \* the fields whose compare! was evaluated, in order
    format,         \* TextureFormat: self of the format functions
    aspect,         \* Option<TextureAspect> argument
    features,       \* Option<Features> / Features argument
    result,         \* the value the format function returned
    combined_format, \* the `combined_format` argument of
                    \* is_depth_stencil_component
    text,           \* the string serialize produced / visit_str is given
    extent,         \* Extent3d: self of the extent functions
    dim,            \* TextureDimension argument
    level,          \* the `level` argument of mip_level_size
    overflow_checks \* whether the build panics on integer overflow

vars == <<op, requested, allowed, fatal, within, reports, compared,
          format, aspect, features, result, combined_format, text,
          extent, dim, level, overflow_checks>>

extentVars == <<extent, dim, level, overflow_checks>>
limitVars == <<requested, allowed, fatal, within, reports, compared>>
formatVars == <<format, aspect, features, result, combined_format, text,
                extentVars>>
formatArgs == <<format, aspect, features, combined_format, extentVars>>

----------------------------------------------------------------------------
(* Option<T> *)

None == <<>>
Some(x) == <<x>>

----------------------------------------------------------------------------
(* Limits *)

\* The compare! invocations before the subgroup guard, in source order,
\* each with the Ordering that passes besides Equal.
PreSubgroupCompares ==
    << <<"max_texture_dimension_1d", "Less">>,
       <<"max_texture_dimension_2d", "Less">>,
       <<"max_texture_dimension_3d", "Less">>,
       <<"max_texture_array_layers", "Less">>,
       <<"max_bind_groups", "Less">>,
       <<"max_bindings_per_bind_group", "Less">>,
       <<"max_dynamic_uniform_buffers_per_pipeline_layout", "Less">>,
       <<"max_dynamic_storage_buffers_per_pipeline_layout", "Less">>,
       <<"max_sampled_textures_per_shader_stage", "Less">>,
       <<"max_samplers_per_shader_stage", "Less">>,
       <<"max_storage_buffers_per_shader_stage", "Less">>,
       <<"max_storage_textures_per_shader_stage", "Less">>,
       <<"max_uniform_buffers_per_shader_stage", "Less">>,
       <<"max_uniform_buffer_binding_size", "Less">>,
       <<"max_storage_buffer_binding_size", "Less">>,
       <<"max_vertex_buffers", "Less">>,
       <<"max_buffer_size", "Less">>,
       <<"max_vertex_attributes", "Less">>,
       <<"max_vertex_buffer_array_stride", "Less">>,
       <<"min_uniform_buffer_offset_alignment", "Greater">>,
       <<"min_storage_buffer_offset_alignment", "Greater">>,
       <<"max_inter_stage_shader_components", "Less">>,
       <<"max_color_attachments", "Less">>,
       <<"max_color_attachment_bytes_per_sample", "Less">>,
       <<"max_compute_workgroup_storage_size", "Less">>,
       <<"max_compute_invocations_per_workgroup", "Less">>,
       <<"max_compute_workgroup_size_x", "Less">>,
       <<"max_compute_workgroup_size_y", "Less">>,
       <<"max_compute_workgroup_size_z", "Less">>,
       <<"max_compute_workgroups_per_dimension", "Less">> >>

\* The two compare! invocations inside the subgroup guard.
SubgroupCompares ==
    << <<"min_subgroup_size", "Greater">>,
       <<"max_subgroup_size", "Less">> >>

\* The compare! invocations after the subgroup guard.
PostSubgroupCompares ==
    << <<"max_push_constant_size", "Less">>,
       <<"max_non_sampler_bindings", "Less">> >>

\* The fields of struct Limits.
LimitFields ==
    { "max_texture_dimension_1d", "max_texture_dimension_2d",
      "max_texture_dimension_3d", "max_texture_array_layers",
      "max_bind_groups", "max_bindings_per_bind_group",
      "max_dynamic_uniform_buffers_per_pipeline_layout",
      "max_dynamic_storage_buffers_per_pipeline_layout",
      "max_sampled_textures_per_shader_stage",
      "max_samplers_per_shader_stage",
      "max_storage_buffers_per_shader_stage",
      "max_storage_textures_per_shader_stage",
      "max_uniform_buffers_per_shader_stage",
      "max_uniform_buffer_binding_size",
      "max_storage_buffer_binding_size",
      "max_vertex_buffers", "max_buffer_size", "max_vertex_attributes",
      "max_vertex_buffer_array_stride",
      "min_uniform_buffer_offset_alignment",
      "min_storage_buffer_offset_alignment",
      "max_inter_stage_shader_components", "max_color_attachments",
      "max_color_attachment_bytes_per_sample",
      "max_compute_workgroup_storage_size",
      "max_compute_invocations_per_workgroup",
      "max_compute_workgroup_size_x", "max_compute_workgroup_size_y",
      "max_compute_workgroup_size_z",
      "max_compute_workgroups_per_dimension",
      "min_subgroup_size", "max_subgroup_size",
      "max_push_constant_size", "max_non_sampler_bindings" }

\* Ord::cmp on unsigned integers.
Cmp(a, b) == IF a < b THEN "Less" ELSE IF a = b THEN "Equal" ELSE "Greater"

\* ComparePasses with every field compared as `Less`.
ComparePasses_AlwaysLess(a, b, ordering) == Cmp(a, b) \in {"Less", "Equal"}

\* ComparePasses without the `Ordering::Equal` alternative.
ComparePasses_NoEqual(a, b, ordering) == Cmp(a, b) = ordering

\* The match of compare!: the arm `Ordering::$ordering | Ordering::Equal`.
ComparePasses(a, b, ordering) == Cmp(a, b) \in {ordering, "Equal"}

\* The state a call of check_limits_with_fail_fn starts from: nothing
\* compared, nothing reported, not returned.
CheckStart == [reports |-> <<>>, compared |-> <<>>, returned |-> FALSE]

\* Compare without the `if fatal { return; }`.
Compare_NoReturn(st, self, allowed_, fatal_, name, ordering) ==
    IF st.returned THEN st
    ELSE IF ComparePasses(self[name], allowed_[name], ordering)
         THEN [st EXCEPT !.compared = Append(@, name)]
         ELSE [reports  |-> Append(st.reports,
                                   [name |-> name, self |-> self[name],
                                    allowed |-> allowed_[name]]),
               compared |-> Append(st.compared, name),
               returned |-> FALSE]

\* Compare passing fail_fn the allowed value first and self's second.
Compare_SwappedValues(st, self, allowed_, fatal_, name, ordering) ==
    IF st.returned THEN st
    ELSE IF ComparePasses(self[name], allowed_[name], ordering)
         THEN [st EXCEPT !.compared = Append(@, name)]
         ELSE [reports  |-> Append(st.reports,
                                   [name |-> name, self |-> allowed_[name],
                                    allowed |-> self[name]]),
               compared |-> Append(st.compared, name),
               returned |-> fatal_]

\* One expansion of compare!($name, $ordering).  A compare! after the
\* function returned is not evaluated.
Compare(st, self, allowed_, fatal_, name, ordering) ==
    IF st.returned THEN st
    ELSE IF ComparePasses(self[name], allowed_[name], ordering)
         THEN [st EXCEPT !.compared = Append(@, name)]
         ELSE [reports  |-> Append(st.reports,
                                   [name |-> name, self |-> self[name],
                                    allowed |-> allowed_[name]]),
               compared |-> Append(st.compared, name),
               returned |-> fatal_]

\* A run of consecutive compare! statements.
RECURSIVE CompareSeq(_, _, _, _, _)
CompareSeq(st, self, allowed_, fatal_, list) ==
    IF list = <<>> THEN st
    ELSE CompareSeq(Compare(st, self, allowed_, fatal_,
                            Head(list)[1], Head(list)[2]),
                    self, allowed_, fatal_, Tail(list))

\* SubgroupGuard with `||` for `&&`.
SubgroupGuard_Either(self) ==
    self["min_subgroup_size"] > 0 \/ self["max_subgroup_size"] > 0

\* The guard `if self.min_subgroup_size > 0 && self.max_subgroup_size > 0`.
SubgroupGuard(self) ==
    self["min_subgroup_size"] > 0 /\ self["max_subgroup_size"] > 0

\* check_limits_with_fail_fn testing the subgroup sizes of `allowed` in the
\* guard.
check_limits_with_fail_fn_GuardOnAllowed(self, allowed_, fatal_) ==
    LET s1 == CompareSeq(CheckStart, self, allowed_, fatal_,
                         PreSubgroupCompares)
        s2 == IF ~s1.returned /\ SubgroupGuard(allowed_)
              THEN CompareSeq(s1, self, allowed_, fatal_, SubgroupCompares)
              ELSE s1
    IN  CompareSeq(s2, self, allowed_, fatal_, PostSubgroupCompares)

\* Limits::check_limits_with_fail_fn: the record of what it compared and
\* what it passed to fail_fn.
check_limits_with_fail_fn(self, allowed_, fatal_) ==
    LET s1 == CompareSeq(CheckStart, self, allowed_, fatal_,
                         PreSubgroupCompares)
        s2 == IF ~s1.returned /\ SubgroupGuard(self)
              THEN CompareSeq(s1, self, allowed_, fatal_, SubgroupCompares)
              ELSE s1
    IN  CompareSeq(s2, self, allowed_, fatal_, PostSubgroupCompares)

\* Limits::check_limits: fatal mode, fail_fn sets within to false.
check_limits(self, allowed_) ==
    check_limits_with_fail_fn(self, allowed_, TRUE).reports = <<>>

----------------------------------------------------------------------------
(* The calls of the Limit Comparator that are explored *)

\* Number of non-zero values a limit takes in the explored calls.
MaxStep == 3

\* The explored limit values: 0 and 128, 256, 512, ...
LimitValues == {0} \cup {64 * (2 ^ k) : k \in 1..MaxStep}

\* Default of min_uniform_buffer_offset_alignment and
\* min_storage_buffer_offset_alignment in Limits::defaults().
DefaultAlignment == 256

\* A Limits value with every field at the same value.
UniformLimits == [f \in LimitFields |-> DefaultAlignment]

\* Fields that take part in every explored pair of differing fields: the
\* first field, the u64 field, the two alignment fields, the subgroup pair
\* and the two fields after it.
FocusFields ==
    { "max_texture_dimension_1d", "max_buffer_size",
      "min_uniform_buffer_offset_alignment",
      "min_storage_buffer_offset_alignment",
      "min_subgroup_size", "max_subgroup_size",
      "max_push_constant_size", "max_non_sampler_bindings" }

\* Explored `self` arguments: UniformLimits changed in any one field and
\* one focus field.
RequestedInputs ==
    { [UniformLimits EXCEPT ![f] = v, ![g] = w] :
        f \in LimitFields, g \in FocusFields,
        v \in LimitValues, w \in LimitValues }

\* Explored `allowed` arguments for a given `self`: self itself, or
\* UniformLimits with any subgroup sizes.
AllowedInputs(self) ==
    {self} \cup
    { [UniformLimits EXCEPT !["min_subgroup_size"] = v,
                            !["max_subgroup_size"] = w] :
        v \in LimitValues, w \in LimitValues }

\* Limits::defaults(), the value of Limits::default().
defaults ==
    [ max_texture_dimension_1d |-> 8192,
      max_texture_dimension_2d |-> 8192,
      max_texture_dimension_3d |-> 2048,
      max_texture_array_layers |-> 256,
      max_bind_groups |-> 4,
      max_bindings_per_bind_group |-> 1000,
      max_dynamic_uniform_buffers_per_pipeline_layout |-> 8,
      max_dynamic_storage_buffers_per_pipeline_layout |-> 4,
      max_sampled_textures_per_shader_stage |-> 16,
      max_samplers_per_shader_stage |-> 16,
      max_storage_buffers_per_shader_stage |-> 8,
      max_storage_textures_per_shader_stage |-> 4,
      max_uniform_buffers_per_shader_stage |-> 12,
      max_uniform_buffer_binding_size |-> 64 * 2^10,
      max_storage_buffer_binding_size |-> 128 * 2^20,
      max_vertex_buffers |-> 8,
      max_buffer_size |-> 256 * 2^20,
      max_vertex_attributes |-> 16,
      max_vertex_buffer_array_stride |-> 2048,
      min_uniform_buffer_offset_alignment |-> 256,
      min_storage_buffer_offset_alignment |-> 256,
      max_inter_stage_shader_components |-> 60,
      max_color_attachments |-> 8,
      max_color_attachment_bytes_per_sample |-> 32,
      max_compute_workgroup_storage_size |-> 16384,
      max_compute_invocations_per_workgroup |-> 256,
      max_compute_workgroup_size_x |-> 256,
      max_compute_workgroup_size_y |-> 256,
      max_compute_workgroup_size_z |-> 64,
      max_compute_workgroups_per_dimension |-> 65535,
      min_subgroup_size |-> 0,
      max_subgroup_size |-> 0,
      max_push_constant_size |-> 0,
      max_non_sampler_bindings |-> 1000000 ]

\* Limits::downlevel_defaults()
downlevel_defaults ==
    [ defaults EXCEPT
        !.max_texture_dimension_1d = 2048,
        !.max_texture_dimension_2d = 2048,
        !.max_texture_dimension_3d = 256,
        !.max_storage_buffers_per_shader_stage = 4,
        !.max_uniform_buffer_binding_size = 16 * 2^10,
        !.max_compute_workgroup_storage_size = 16352 ]

\* downlevel_webgl2_defaults allowing more uniform buffers per stage than
\* the other presets.
downlevel_webgl2_defaults_MoreUniformBuffers ==
    [ downlevel_defaults EXCEPT
        !.max_uniform_buffers_per_shader_stage = 13,
        !.max_storage_buffers_per_shader_stage = 0,
        !.max_storage_textures_per_shader_stage = 0,
        !.max_dynamic_storage_buffers_per_pipeline_layout = 0,
        !.max_storage_buffer_binding_size = 0,
        !.max_vertex_buffer_array_stride = 255,
        !.max_compute_workgroup_storage_size = 0,
        !.max_compute_invocations_per_workgroup = 0,
        !.max_compute_workgroup_size_x = 0,
        !.max_compute_workgroup_size_y = 0,
        !.max_compute_workgroup_size_z = 0,
        !.max_compute_workgroups_per_dimension = 0,
        !.min_subgroup_size = 0,
        !.max_subgroup_size = 0,
        !.max_inter_stage_shader_components = 31 ]

\* Limits::downlevel_webgl2_defaults()
downlevel_webgl2_defaults ==
    [ downlevel_defaults EXCEPT
        !.max_uniform_buffers_per_shader_stage = 11,
        !.max_storage_buffers_per_shader_stage = 0,
        !.max_storage_textures_per_shader_stage = 0,
        !.max_dynamic_storage_buffers_per_pipeline_layout = 0,
        !.max_storage_buffer_binding_size = 0,
        !.max_vertex_buffer_array_stride = 255,
        !.max_compute_workgroup_storage_size = 0,
        !.max_compute_invocations_per_workgroup = 0,
        !.max_compute_workgroup_size_x = 0,
        !.max_compute_workgroup_size_y = 0,
        !.max_compute_workgroup_size_z = 0,
        !.max_compute_workgroups_per_dimension = 0,
        !.min_subgroup_size = 0,
        !.max_subgroup_size = 0,
        !.max_inter_stage_shader_components = 31 ]

\* The three presets.
Presets == {defaults, downlevel_defaults, downlevel_webgl2_defaults}

\* No TextureFormat is passed.
NoFormat == [tag |-> "none", block |-> "", channel |-> ""]

\* No string is passed.
NoText == "<none>"

\* The arguments are an explored pair, or two of the presets.
\* The extent arguments of a call that takes none.
NoDimension == "none"

NoExtentArgs ==
    /\ extent = [width |-> [hi |-> 0, lo |-> 0],
                 height |-> [hi |-> 0, lo |-> 0],
                 depth_or_array_layers |-> [hi |-> 0, lo |-> 0]]
    /\ dim = NoDimension
    /\ level = 0
    /\ overflow_checks = FALSE

InitLimits ==
    /\ op = "idle"
    /\ \/ /\ requested \in RequestedInputs
          /\ allowed \in AllowedInputs(requested)
       \/ /\ requested \in Presets
          /\ allowed \in Presets
    /\ fatal = FALSE
    /\ within = TRUE
    /\ reports = <<>>
    /\ compared = <<>>
    /\ format = NoFormat
    /\ aspect = None
    /\ features = None
    /\ result = None
    /\ combined_format = NoFormat
    /\ text = NoText
    /\ NoExtentArgs

\* A call requested.check_limits(&allowed).
CheckLimits ==
    /\ op = "idle"
    /\ op' = "check_limits"
    /\ within' = check_limits(requested, allowed)
    /\ UNCHANGED <<requested, allowed, fatal, reports, compared>>
    /\ UNCHANGED formatVars

\* A call requested.check_limits_with_fail_fn(&allowed, fatal, fail_fn)
\* with a fail_fn that records its arguments.
CheckLimitsWithFailFn ==
    /\ op = "idle"
    /\ \E b \in BOOLEAN :
         LET r == check_limits_with_fail_fn(requested, allowed, b)
         IN  /\ fatal' = b
             /\ reports' = r.reports
             /\ compared' = r.compared
    /\ op' = "check_limits_with_fail_fn"
    /\ UNCHANGED <<requested, allowed, within>>
    /\ UNCHANGED formatVars

NextLimits == CheckLimits \/ CheckLimitsWithFailFn

SpecLimits == InitLimits /\ [][NextLimits]_vars

----------------------------------------------------------------------------
(* Properties of the Limit Comparator *)

Range(seq) == {seq[i] : i \in 1..Len(seq)}

AlignmentFields ==
    {"min_uniform_buffer_offset_alignment",
     "min_storage_buffer_offset_alignment"}

SubgroupFields == {"min_subgroup_size", "max_subgroup_size"}

\* The fields that pass when requested <= allowed, the subgroup maximum
\* apart.
MaxFields == (LimitFields \ AlignmentFields) \ SubgroupFields

\* The order in which the fields are compared.
DeclaredOrder ==
    [i \in 1..Len(PreSubgroupCompares) |-> PreSubgroupCompares[i][1]]
    \o <<"min_subgroup_size", "max_subgroup_size">>
    \o <<"max_push_constant_size", "max_non_sampler_bindings">>

FieldIndex(f) == CHOOSE i \in 1..Len(DeclaredOrder) : DeclaredOrder[i] = f

BothSubgroupSizesNonZero(r) ==
    r["min_subgroup_size"] # 0 /\ r["max_subgroup_size"] # 0

\* The direction of a field: requested >= allowed for the alignments and
\* the subgroup minimum, requested <= allowed for the rest.
FieldOk(r, a, f) ==
    IF f \in AlignmentFields \cup {"min_subgroup_size"}
    THEN r[f] >= a[f]
    ELSE r[f] <= a[f]

\* A field fails when it is compared at all and its direction is violated.
FieldFails(r, a, f) ==
    /\ f \in SubgroupFields => BothSubgroupSizesNonZero(r)
    /\ ~FieldOk(r, a, f)

FailingFields(r, a) ==
    LET Test(f) == FieldFails(r, a, f) IN SelectSeq(DeclaredOrder, Test)

ReportOf(r, a, f) == [name |-> f, self |-> r[f], allowed |-> a[f]]

ReportedNames == {reports[i].name : i \in 1..Len(reports)}

\* The call did not return before reaching the compare! of field f.
ReachedField(f) ==
    ~fatal \/ \A n \in ReportedNames : FieldIndex(n) >= FieldIndex(f)

C2_Reflexive ==
    requested = allowed =>
        /\ op = "check_limits" => within
        /\ op = "check_limits_with_fail_fn" =>
             reports = <<>>

C2_Witness ==
    /\ op = "check_limits_with_fail_fn"
    /\ requested = allowed
    /\ ~fatal
    /\ requested["min_subgroup_size"] = 512
    /\ requested["max_subgroup_size"] = 128
    /\ reports = <<>>

\* C3: in fatal mode fail_fn is called at most once; when it is called, it
\* is for the first field in the declared order that fails, and no field
\* after that one is compared or reported.
C3_FatalStopsAtFirstFailure ==
    (op = "check_limits_with_fail_fn" /\ fatal) =>
        /\ Len(reports) <= 1
        /\ reports # <<>> =>
             LET failing == FailingFields(requested, allowed)
             IN  /\ failing # <<>>
                 /\ reports[1] = ReportOf(requested, allowed, failing[1])
                 /\ \A f \in Range(compared) :
                      FieldIndex(f) <= FieldIndex(failing[1])
                 /\ compared[Len(compared)] = failing[1]

C3_Witness ==
    /\ op = "check_limits_with_fail_fn"
    /\ fatal
    /\ Len(reports) = 1
    /\ Len(FailingFields(requested, allowed)) >= 2

\* C4: in non-fatal mode fail_fn is called exactly once for each failing
\* field and for no passing field, in the declared order, with the field's
\* name, the requested value and the allowed value; the first report is
\* the one report the fatal mode makes on the same arguments.
C4_NonFatalReportsEveryFailure ==
    (op = "check_limits_with_fail_fn" /\ ~fatal) =>
        LET failing == FailingFields(requested, allowed)
        IN  /\ Len(reports) = Len(failing)
            /\ \A i \in 1..Len(failing) :
                 reports[i] = ReportOf(requested, allowed, failing[i])
            /\ check_limits_with_fail_fn(requested, allowed, TRUE).reports
                 = IF reports = <<>> THEN <<>> ELSE <<reports[1]>>

C4_Witness ==
    /\ op = "check_limits_with_fail_fn"
    /\ ~fatal
    /\ Len(reports) = 2
    /\ reports[1].name = "max_texture_dimension_2d"
    /\ reports[2].name = "min_subgroup_size"

----------------------------------------------------------------------------
(* TextureFormat, TextureAspect, Features *)

\* enum AstcBlock
AstcBlocks ==
    {"B4x4", "B5x4", "B5x5", "B6x5", "B6x6", "B8x5", "B8x6", "B8x8",
     "B10x5", "B10x6", "B10x8", "B10x10", "B12x10", "B12x12"}

\* enum AstcChannel
AstcChannels == {"Unorm", "UnormSrgb", "Hdr"}

\* The variants of enum TextureFormat that carry no data.
PlainFormatTags ==
    {"R8Unorm", "R8Snorm", "R8Uint", "R8Sint",
     "R16Uint", "R16Sint", "R16Unorm", "R16Snorm", "R16Float",
     "Rg8Unorm", "Rg8Snorm", "Rg8Uint", "Rg8Sint",
     "R32Uint", "R32Sint", "R32Float",
     "Rg16Uint", "Rg16Sint", "Rg16Unorm", "Rg16Snorm", "Rg16Float",
     "Rgba8Unorm", "Rgba8UnormSrgb", "Rgba8Snorm", "Rgba8Uint", "Rgba8Sint",
     "Bgra8Unorm", "Bgra8UnormSrgb",
     "Rgb9e5Ufloat", "Rgb10a2Uint", "Rgb10a2Unorm", "Rg11b10Ufloat",
     "Rg32Uint", "Rg32Sint", "Rg32Float",
     "Rgba16Uint", "Rgba16Sint", "Rgba16Unorm", "Rgba16Snorm", "Rgba16Float",
     "Rgba32Uint", "Rgba32Sint", "Rgba32Float",
     "Stencil8", "Depth16Unorm", "Depth24Plus", "Depth24PlusStencil8",
     "Depth32Float", "Depth32FloatStencil8",
     "NV12",
     "Bc1RgbaUnorm", "Bc1RgbaUnormSrgb", "Bc2RgbaUnorm", "Bc2RgbaUnormSrgb",
     "Bc3RgbaUnorm", "Bc3RgbaUnormSrgb", "Bc4RUnorm", "Bc4RSnorm",
     "Bc5RgUnorm", "Bc5RgSnorm", "Bc6hRgbUfloat", "Bc6hRgbFloat",
     "Bc7RgbaUnorm", "Bc7RgbaUnormSrgb",
     "Etc2Rgb8Unorm", "Etc2Rgb8UnormSrgb", "Etc2Rgb8A1Unorm",
     "Etc2Rgb8A1UnormSrgb", "Etc2Rgba8Unorm", "Etc2Rgba8UnormSrgb",
     "EacR11Unorm", "EacR11Snorm", "EacRg11Unorm", "EacRg11Snorm"}

\* A data-less variant TextureFormat::t.
Fmt(t) == [tag |-> t, block |-> "", channel |-> ""]

\* TextureFormat::Astc { block, channel }.
Astc(b, c) == [tag |-> "Astc", block |-> b, channel |-> c]

\* enum TextureFormat
TextureFormats ==
    {Fmt(t) : t \in PlainFormatTags}
    \cup {Astc(b, c) : b \in AstcBlocks, c \in AstcChannels}

\* enum TextureAspect
TextureAspects ==
    {"All", "StencilOnly", "DepthOnly", "Plane0", "Plane1", "Plane2"}

\* enum TextureSampleType
Float(filterable_) == [kind |-> "Float", filterable |-> filterable_]
Depth == [kind |-> "Depth", filterable |-> FALSE]
Sint == [kind |-> "Sint", filterable |-> FALSE]
Uint == [kind |-> "Uint", filterable |-> FALSE]

\* TextureFormat::planes
planes(self) == IF self.tag = "NV12" THEN Some(2) ELSE None

\* TextureFormat::is_multi_planar_format
is_multi_planar_format(self) == planes(self) # None

\* TextureFormat::is_combined_depth_stencil_format
is_combined_depth_stencil_format(self) ==
    self.tag \in {"Depth24PlusStencil8", "Depth32FloatStencil8"}

\* aspect_specific_format with `_ => Some(*self)` as its last arm.
aspect_specific_format_DefaultSelf(self, aspect_) ==
    CASE self.tag = "Stencil8" /\ aspect_ = "StencilOnly" -> Some(self)
      [] /\ self.tag \in {"Depth16Unorm", "Depth24Plus", "Depth32Float"}
         /\ aspect_ = "DepthOnly" -> Some(self)
      [] /\ self.tag \in {"Depth24PlusStencil8", "Depth32FloatStencil8"}
         /\ aspect_ = "StencilOnly" -> Some(Fmt("Stencil8"))
      [] self.tag = "Depth24PlusStencil8" /\ aspect_ = "DepthOnly" ->
            Some(Fmt("Depth24Plus"))
      [] self.tag = "Depth32FloatStencil8" /\ aspect_ = "DepthOnly" ->
            Some(Fmt("Depth32Float"))
      [] self.tag = "NV12" /\ aspect_ = "Plane0" -> Some(Fmt("R8Unorm"))
      [] self.tag = "NV12" /\ aspect_ = "Plane1" -> Some(Fmt("Rg8Unorm"))
      [] aspect_ = "All" /\ ~is_multi_planar_format(self) -> Some(self)
      [] OTHER -> Some(self)

\* aspect_specific_format without the guard
\* `if !format.is_multi_planar_format()` on the (format, All) arm.
aspect_specific_format_NoGuard(self, aspect_) ==
    CASE self.tag = "Stencil8" /\ aspect_ = "StencilOnly" -> Some(self)
      [] /\ self.tag \in {"Depth16Unorm", "Depth24Plus", "Depth32Float"}
         /\ aspect_ = "DepthOnly" -> Some(self)
      [] /\ self.tag \in {"Depth24PlusStencil8", "Depth32FloatStencil8"}
         /\ aspect_ = "StencilOnly" -> Some(Fmt("Stencil8"))
      [] self.tag = "Depth24PlusStencil8" /\ aspect_ = "DepthOnly" ->
            Some(Fmt("Depth24Plus"))
      [] self.tag = "Depth32FloatStencil8" /\ aspect_ = "DepthOnly" ->
            Some(Fmt("Depth32Float"))
      [] self.tag = "NV12" /\ aspect_ = "Plane0" -> Some(Fmt("R8Unorm"))
      [] self.tag = "NV12" /\ aspect_ = "Plane1" -> Some(Fmt("Rg8Unorm"))
      [] aspect_ = "All" -> Some(self)
      [] OTHER -> None

\* TextureFormat::aspect_specific_format.  The arms of the match exclude
\* one another: the earlier arms name an aspect other than All.
aspect_specific_format(self, aspect_) ==
    CASE self.tag = "Stencil8" /\ aspect_ = "StencilOnly" -> Some(self)
      [] /\ self.tag \in {"Depth16Unorm", "Depth24Plus", "Depth32Float"}
         /\ aspect_ = "DepthOnly" -> Some(self)
      [] /\ self.tag \in {"Depth24PlusStencil8", "Depth32FloatStencil8"}
         /\ aspect_ = "StencilOnly" -> Some(Fmt("Stencil8"))
      [] self.tag = "Depth24PlusStencil8" /\ aspect_ = "DepthOnly" ->
            Some(Fmt("Depth24Plus"))
      [] self.tag = "Depth32FloatStencil8" /\ aspect_ = "DepthOnly" ->
            Some(Fmt("Depth32Float"))
      [] self.tag = "NV12" /\ aspect_ = "Plane0" -> Some(Fmt("R8Unorm"))
      [] self.tag = "NV12" /\ aspect_ = "Plane1" -> Some(Fmt("Rg8Unorm"))
      [] aspect_ = "All" /\ ~is_multi_planar_format(self) -> Some(self)
      [] OTHER -> None

\* The nested `match aspect` of sample_type for the combined depth-stencil
\* formats, with `_ => Some(depth)`.
DepthStencilSampleType_DefaultDepth(aspect_) ==
    IF aspect_ = Some("StencilOnly") THEN Some(Uint) ELSE Some(Depth)

\* The nested `match aspect` of sample_type for Depth24PlusStencil8 and
\* Depth32FloatStencil8.
DepthStencilSampleType(aspect_) ==
    IF aspect_ = Some("DepthOnly") THEN Some(Depth)
    ELSE IF aspect_ = Some("StencilOnly") THEN Some(Uint)
    ELSE None

\* The nested `match aspect` of sample_type for NV12.
MultiPlanarSampleType(aspect_) ==
    IF aspect_ = Some("Plane0") \/ aspect_ = Some("Plane1")
    THEN Some(Float(FALSE))
    ELSE None

\* unwrap_or(Features::all()) for unwrap_or(Features::empty()).
UnwrapOrEmpty_All(device_features) ==
    IF device_features = None
    THEN {"FLOAT32_FILTERABLE", "RG11B10UFLOAT_RENDERABLE",
          "BGRA8UNORM_STORAGE"}
    ELSE device_features[1]

\* Option<Features>::unwrap_or(Features::empty())
UnwrapOrEmpty(device_features) ==
    IF device_features = None THEN {} ELSE device_features[1]

\* TextureFormat::sample_type
sample_type(self, aspect_, device_features) ==
    LET float == Float(TRUE)
        float32_sample_type ==
            Float("FLOAT32_FILTERABLE" \in UnwrapOrEmpty(device_features))
    IN
    CASE self.tag \in {"R8Unorm", "R8Snorm", "Rg8Unorm", "Rg8Snorm",
                       "Rgba8Unorm", "Rgba8UnormSrgb", "Rgba8Snorm",
                       "Bgra8Unorm", "Bgra8UnormSrgb", "R16Float",
                       "Rg16Float", "Rgba16Float", "Rgb10a2Unorm",
                       "Rg11b10Ufloat"} -> Some(float)
      [] self.tag \in {"R32Float", "Rg32Float", "Rgba32Float"} ->
            Some(float32_sample_type)
      [] self.tag \in {"R8Uint", "Rg8Uint", "Rgba8Uint", "R16Uint",
                       "Rg16Uint", "Rgba16Uint", "R32Uint", "Rg32Uint",
                       "Rgba32Uint", "Rgb10a2Uint"} -> Some(Uint)
      [] self.tag \in {"R8Sint", "Rg8Sint", "Rgba8Sint", "R16Sint",
                       "Rg16Sint", "Rgba16Sint", "R32Sint", "Rg32Sint",
                       "Rgba32Sint"} -> Some(Sint)
      [] self.tag = "Stencil8" -> Some(Uint)
      [] self.tag \in {"Depth16Unorm", "Depth24Plus", "Depth32Float"} ->
            Some(Depth)
      [] self.tag \in {"Depth24PlusStencil8", "Depth32FloatStencil8"} ->
            DepthStencilSampleType(aspect_)
      [] self.tag = "NV12" ->
            MultiPlanarSampleType(aspect_)
      [] self.tag \in {"R16Unorm", "R16Snorm", "Rg16Unorm", "Rg16Snorm",
                       "Rgba16Unorm", "Rgba16Snorm"} -> Some(float)
      [] self.tag = "Rgb9e5Ufloat" -> Some(float)
      [] self.tag \in {"Bc1RgbaUnorm", "Bc1RgbaUnormSrgb", "Bc2RgbaUnorm",
                       "Bc2RgbaUnormSrgb", "Bc3RgbaUnorm",
                       "Bc3RgbaUnormSrgb", "Bc4RUnorm", "Bc4RSnorm",
                       "Bc5RgUnorm", "Bc5RgSnorm", "Bc6hRgbUfloat",
                       "Bc6hRgbFloat", "Bc7RgbaUnorm",
                       "Bc7RgbaUnormSrgb"} -> Some(float)
      [] self.tag \in {"Etc2Rgb8Unorm", "Etc2Rgb8UnormSrgb",
                       "Etc2Rgb8A1Unorm", "Etc2Rgb8A1UnormSrgb",
                       "Etc2Rgba8Unorm", "Etc2Rgba8UnormSrgb",
                       "EacR11Unorm", "EacR11Snorm", "EacRg11Unorm",
                       "EacRg11Snorm"} -> Some(float)
      [] self.tag = "Astc" -> Some(float)

----------------------------------------------------------------------------
(* TextureFormat::guaranteed_format_features *)

\* TextureUsages::all()
AllTextureUsages ==
    {"COPY_SRC", "COPY_DST", "TEXTURE_BINDING", "STORAGE_BINDING",
     "RENDER_ATTACHMENT"}

\* bitflags `set(flag, value)`: insert the flag or remove it.
SetFlag(flags, flag, value) ==
    IF value THEN flags \cup {flag} ELSE flags \ {flag}

\* `let noaa`, `let msaa`, `let msaa_resolve` of
\* guaranteed_format_features: the multisampling tiers.
noaa == {}

msaa == {"MULTISAMPLE_X4"}

msaa_resolve == msaa \cup {"MULTISAMPLE_RESOLVE"}

\* `let basic`, `let attachment`, `let storage`, `let binding`,
\* `let all_flags` of guaranteed_format_features: the usage tiers.
basic == {"COPY_SRC", "COPY_DST", "TEXTURE_BINDING"}

attachment == basic \cup {"RENDER_ATTACHMENT"}

\* `let storage` without `basic |`.
storage_NoBasic == {"STORAGE_BINDING"}

storage == basic \cup {"STORAGE_BINDING"}

binding == {"TEXTURE_BINDING"}

all_flags == AllTextureUsages

\* `let rg11b10f` with the two branches exchanged.
rg11b10f_Exchanged(device_features) ==
    IF "RG11B10UFLOAT_RENDERABLE" \in device_features
    THEN basic ELSE attachment

\* `let rg11b10f` of guaranteed_format_features.
rg11b10f(device_features) ==
    IF "RG11B10UFLOAT_RENDERABLE" \in device_features
    THEN attachment ELSE basic

\* `let bgra8unorm` without the test of BGRA8UNORM_STORAGE.
bgra8unorm_AlwaysAttachment(device_features) == attachment

\* `let bgra8unorm` of guaranteed_format_features.
bgra8unorm(device_features) ==
    IF "BGRA8UNORM_STORAGE" \in device_features
    THEN attachment \cup {"STORAGE_BINDING"} ELSE attachment

\* The (flags, allowed_usages) table of guaranteed_format_features, one
\* row per format as in the source.
FormatFeatureTable(self, device_features) ==
    CASE self.tag = "R8Unorm"                -> <<msaa_resolve, attachment>>
      [] self.tag = "R8Snorm"                -> <<        noaa,      basic>>
      [] self.tag = "R8Uint"                 -> <<        msaa, attachment>>
      [] self.tag = "R8Sint"                 -> <<        msaa, attachment>>
      [] self.tag = "R16Uint"                -> <<        msaa, attachment>>
      [] self.tag = "R16Sint"                -> <<        msaa, attachment>>
      [] self.tag = "R16Float"               -> <<msaa_resolve, attachment>>
      [] self.tag = "Rg8Unorm"               -> <<msaa_resolve, attachment>>
      [] self.tag = "Rg8Snorm"               -> <<        noaa,      basic>>
      [] self.tag = "Rg8Uint"                -> <<        msaa, attachment>>
      [] self.tag = "Rg8Sint"                -> <<        msaa, attachment>>
      [] self.tag = "R32Uint"                -> <<        noaa,  all_flags>>
      [] self.tag = "R32Sint"                -> <<        noaa,  all_flags>>
      [] self.tag = "R32Float"               -> <<        msaa,  all_flags>>
      [] self.tag = "Rg16Uint"               -> <<        msaa, attachment>>
      [] self.tag = "Rg16Sint"               -> <<        msaa, attachment>>
      [] self.tag = "Rg16Float"              -> <<msaa_resolve, attachment>>
      [] self.tag = "Rgba8Unorm"             -> <<msaa_resolve,  all_flags>>
      [] self.tag = "Rgba8UnormSrgb"         -> <<msaa_resolve, attachment>>
      [] self.tag = "Rgba8Snorm"             -> <<        noaa,    storage>>
      [] self.tag = "Rgba8Uint"              -> <<        msaa,  all_flags>>
      [] self.tag = "Rgba8Sint"              -> <<        msaa,  all_flags>>
      [] self.tag = "Bgra8Unorm"             -> <<msaa_resolve, bgra8unorm(device_features)>>
      [] self.tag = "Bgra8UnormSrgb"         -> <<msaa_resolve, attachment>>
      [] self.tag = "Rgb10a2Uint"            -> <<        msaa, attachment>>
      [] self.tag = "Rgb10a2Unorm"           -> <<msaa_resolve, attachment>>
      [] self.tag = "Rg11b10Ufloat"          -> <<        msaa, rg11b10f(device_features)>>
      [] self.tag = "Rg32Uint"               -> <<        noaa,  all_flags>>
      [] self.tag = "Rg32Sint"               -> <<        noaa,  all_flags>>
      [] self.tag = "Rg32Float"              -> <<        noaa,  all_flags>>
      [] self.tag = "Rgba16Uint"             -> <<        msaa,  all_flags>>
      [] self.tag = "Rgba16Sint"             -> <<        msaa,  all_flags>>
      [] self.tag = "Rgba16Float"            -> <<msaa_resolve,  all_flags>>
      [] self.tag = "Rgba32Uint"             -> <<        noaa,  all_flags>>
      [] self.tag = "Rgba32Sint"             -> <<        noaa,  all_flags>>
      [] self.tag = "Rgba32Float"            -> <<        noaa,  all_flags>>
      [] self.tag = "Stencil8"               -> <<        msaa, attachment>>
      [] self.tag = "Depth16Unorm"           -> <<        msaa, attachment>>
      [] self.tag = "Depth24Plus"            -> <<        msaa, attachment>>
      [] self.tag = "Depth24PlusStencil8"    -> <<        msaa, attachment>>
      [] self.tag = "Depth32Float"           -> <<        msaa, attachment>>
      [] self.tag = "Depth32FloatStencil8"   -> <<        msaa, attachment>>
      [] self.tag = "NV12"                   -> <<        noaa,    binding>>
      [] self.tag = "R16Unorm"               -> <<        msaa,    storage>>
      [] self.tag = "R16Snorm"               -> <<        msaa,    storage>>
      [] self.tag = "Rg16Unorm"              -> <<        msaa,    storage>>
      [] self.tag = "Rg16Snorm"              -> <<        msaa,    storage>>
      [] self.tag = "Rgba16Unorm"            -> <<        msaa,    storage>>
      [] self.tag = "Rgba16Snorm"            -> <<        msaa,    storage>>
      [] self.tag = "Rgb9e5Ufloat"           -> <<        noaa,      basic>>
      [] self.tag = "Bc1RgbaUnorm"           -> <<        noaa,      basic>>
      [] self.tag = "Bc1RgbaUnormSrgb"       -> <<        noaa,      basic>>
      [] self.tag = "Bc2RgbaUnorm"           -> <<        noaa,      basic>>
      [] self.tag = "Bc2RgbaUnormSrgb"       -> <<        noaa,      basic>>
      [] self.tag = "Bc3RgbaUnorm"           -> <<        noaa,      basic>>
      [] self.tag = "Bc3RgbaUnormSrgb"       -> <<        noaa,      basic>>
      [] self.tag = "Bc4RUnorm"              -> <<        noaa,      basic>>
      [] self.tag = "Bc4RSnorm"              -> <<        noaa,      basic>>
      [] self.tag = "Bc5RgUnorm"             -> <<        noaa,      basic>>
      [] self.tag = "Bc5RgSnorm"             -> <<        noaa,      basic>>
      [] self.tag = "Bc6hRgbUfloat"          -> <<        noaa,      basic>>
      [] self.tag = "Bc6hRgbFloat"           -> <<        noaa,      basic>>
      [] self.tag = "Bc7RgbaUnorm"           -> <<        noaa,      basic>>
      [] self.tag = "Bc7RgbaUnormSrgb"       -> <<        noaa,      basic>>
      [] self.tag = "Etc2Rgb8Unorm"          -> <<        noaa,      basic>>
      [] self.tag = "Etc2Rgb8UnormSrgb"      -> <<        noaa,      basic>>
      [] self.tag = "Etc2Rgb8A1Unorm"        -> <<        noaa,      basic>>
      [] self.tag = "Etc2Rgb8A1UnormSrgb"    -> <<        noaa,      basic>>
      [] self.tag = "Etc2Rgba8Unorm"         -> <<        noaa,      basic>>
      [] self.tag = "Etc2Rgba8UnormSrgb"     -> <<        noaa,      basic>>
      [] self.tag = "EacR11Unorm"            -> <<        noaa,      basic>>
      [] self.tag = "EacR11Snorm"            -> <<        noaa,      basic>>
      [] self.tag = "EacRg11Unorm"           -> <<        noaa,      basic>>
      [] self.tag = "EacRg11Snorm"           -> <<        noaa,      basic>>
      [] self.tag = "Astc"                   -> <<        noaa,      basic>>

\* guaranteed_format_features deriving FILTERABLE from the classification
\* without device features.
guaranteed_format_features_BaselineFilterable(self, device_features) ==
    LET row == FormatFeatureTable(self, device_features)
        sample_type2 == sample_type(self, None, None)
        is_blendable == sample_type2 = Some(Float(TRUE))
        flags1 == SetFlag(row[1], "FILTERABLE", is_blendable)
        flags2 == SetFlag(flags1, "BLENDABLE", is_blendable)
    IN  [allowed_usages |-> row[2], flags |-> flags2]

\* guaranteed_format_features deriving BLENDABLE from the classification
\* with the device features.
guaranteed_format_features_FilterableBlendable(self, device_features) ==
    LET row == FormatFeatureTable(self, device_features)
        sample_type1 == sample_type(self, None, Some(device_features))
        is_filterable == sample_type1 = Some(Float(TRUE))
        flags1 == SetFlag(row[1], "FILTERABLE", is_filterable)
        flags2 == SetFlag(flags1, "BLENDABLE", is_filterable)
    IN  [allowed_usages |-> row[2], flags |-> flags2]

\* TextureFormat::guaranteed_format_features
guaranteed_format_features(self, device_features) ==
    LET row == FormatFeatureTable(self, device_features)
        sample_type1 == sample_type(self, None, Some(device_features))
        is_filterable == sample_type1 = Some(Float(TRUE))
        sample_type2 == sample_type(self, None, None)
        is_blendable == sample_type2 = Some(Float(TRUE))
        flags1 == SetFlag(row[1], "FILTERABLE", is_filterable)
        flags2 == SetFlag(flags1, "BLENDABLE", is_blendable)
    IN  [allowed_usages |-> row[2], flags |-> flags2]

----------------------------------------------------------------------------
(* More per-format facts *)

\* is_depth_stencil_component with the arguments of the match exchanged:
\* `match (*self, combined_format)`.
is_depth_stencil_component_Exchanged(self, combined_format_) ==
    \/ /\ self.tag = "Depth24PlusStencil8"
       /\ combined_format_.tag \in {"Depth24Plus", "Stencil8"}
    \/ /\ self.tag = "Depth32FloatStencil8"
       /\ combined_format_.tag \in {"Depth32Float", "Stencil8"}

\* TextureFormat::is_depth_stencil_component
is_depth_stencil_component(self, combined_format_) ==
    \/ /\ combined_format_.tag = "Depth24PlusStencil8"
       /\ self.tag \in {"Depth24Plus", "Stencil8"}
    \/ /\ combined_format_.tag = "Depth32FloatStencil8"
       /\ self.tag \in {"Depth32Float", "Stencil8"}

\* The nested `match aspect` of block_copy_size for Depth24PlusStencil8,
\* with the depth aspect sized like Depth32Float.
BlockCopySizeDepth24PlusStencil8_DepthSized(aspect_) ==
    IF aspect_ = Some("DepthOnly") THEN Some(4)
    ELSE IF aspect_ = Some("StencilOnly") THEN Some(1)
    ELSE None

\* The nested `match aspect` of block_copy_size for Depth24PlusStencil8.
BlockCopySizeDepth24PlusStencil8(aspect_) ==
    IF aspect_ = Some("DepthOnly") THEN None
    ELSE IF aspect_ = Some("StencilOnly") THEN Some(1)
    ELSE None

\* The nested `match aspect` of block_copy_size for Depth32FloatStencil8.
BlockCopySizeDepth32FloatStencil8(aspect_) ==
    IF aspect_ = Some("DepthOnly") THEN Some(4)
    ELSE IF aspect_ = Some("StencilOnly") THEN Some(1)
    ELSE None

\* The nested `match aspect` of block_copy_size for NV12, with
\* `_ => Some(1)`.
BlockCopySizeNV12_DefaultPlane0(aspect_) ==
    IF aspect_ = Some("Plane1") THEN Some(2) ELSE Some(1)

\* The nested `match aspect` of block_copy_size for NV12.
BlockCopySizeNV12(aspect_) ==
    IF aspect_ = Some("Plane0") THEN Some(1)
    ELSE IF aspect_ = Some("Plane1") THEN Some(2)
    ELSE None

\* TextureFormat::block_copy_size
block_copy_size(self, aspect_) ==
    CASE self.tag \in {"R8Unorm", "R8Snorm", "R8Uint", "R8Sint"} -> Some(1)
      [] self.tag \in {"Rg8Unorm", "Rg8Snorm", "Rg8Uint", "Rg8Sint"} ->
            Some(2)
      [] self.tag \in {"R16Unorm", "R16Snorm", "R16Uint", "R16Sint",
                       "R16Float"} -> Some(2)
      [] self.tag \in {"Rgba8Unorm", "Rgba8UnormSrgb", "Rgba8Snorm",
                       "Rgba8Uint", "Rgba8Sint", "Bgra8Unorm",
                       "Bgra8UnormSrgb"} -> Some(4)
      [] self.tag \in {"Rg16Unorm", "Rg16Snorm", "Rg16Uint", "Rg16Sint",
                       "Rg16Float"} -> Some(4)
      [] self.tag \in {"R32Uint", "R32Sint", "R32Float"} -> Some(4)
      [] self.tag \in {"Rgb9e5Ufloat", "Rgb10a2Uint", "Rgb10a2Unorm",
                       "Rg11b10Ufloat"} -> Some(4)
      [] self.tag \in {"Rgba16Unorm", "Rgba16Snorm", "Rgba16Uint",
                       "Rgba16Sint", "Rgba16Float"} -> Some(8)
      [] self.tag \in {"Rg32Uint", "Rg32Sint", "Rg32Float"} -> Some(8)
      [] self.tag \in {"Rgba32Uint", "Rgba32Sint", "Rgba32Float"} ->
            Some(16)
      [] self.tag = "Stencil8" -> Some(1)
      [] self.tag = "Depth16Unorm" -> Some(2)
      [] self.tag = "Depth32Float" -> Some(4)
      [] self.tag = "Depth24Plus" -> None
      [] self.tag = "Depth24PlusStencil8" ->
            BlockCopySizeDepth24PlusStencil8(aspect_)
      [] self.tag = "Depth32FloatStencil8" ->
            BlockCopySizeDepth32FloatStencil8(aspect_)
      [] self.tag = "NV12" -> BlockCopySizeNV12(aspect_)
      [] self.tag \in {"Bc1RgbaUnorm", "Bc1RgbaUnormSrgb", "Bc4RUnorm",
                       "Bc4RSnorm"} -> Some(8)
      [] self.tag \in {"Bc2RgbaUnorm", "Bc2RgbaUnormSrgb", "Bc3RgbaUnorm",
                       "Bc3RgbaUnormSrgb", "Bc5RgUnorm", "Bc5RgSnorm",
                       "Bc6hRgbUfloat", "Bc6hRgbFloat", "Bc7RgbaUnorm",
                       "Bc7RgbaUnormSrgb"} -> Some(16)
      [] self.tag \in {"Etc2Rgb8Unorm", "Etc2Rgb8UnormSrgb",
                       "Etc2Rgb8A1Unorm", "Etc2Rgb8A1UnormSrgb",
                       "EacR11Unorm", "EacR11Snorm"} -> Some(8)
      [] self.tag \in {"Etc2Rgba8Unorm", "Etc2Rgba8UnormSrgb",
                       "EacRg11Unorm", "EacRg11Snorm"} -> Some(16)
      [] self.tag = "Astc" -> Some(16)

\* sample_count_supported with MULTISAMPLE_X4 also allowing a count of 2.
sample_count_supported_X4AllowsX2(flags, count) ==
    CASE count = 1 -> TRUE
      [] count = 2 -> "MULTISAMPLE_X4" \in flags
      [] count = 4 -> "MULTISAMPLE_X4" \in flags
      [] count = 8 -> "MULTISAMPLE_X8" \in flags
      [] count = 16 -> "MULTISAMPLE_X16" \in flags
      [] OTHER -> FALSE

\* TextureFormatFeatureFlags::sample_count_supported
sample_count_supported(flags, count) ==
    CASE count = 1 -> TRUE
      [] count = 2 -> "MULTISAMPLE_X2" \in flags
      [] count = 4 -> "MULTISAMPLE_X4" \in flags
      [] count = 8 -> "MULTISAMPLE_X8" \in flags
      [] count = 16 -> "MULTISAMPLE_X16" \in flags
      [] OTHER -> FALSE

\* TextureFormatFeatureFlags::supported_sample_counts
supported_sample_counts(flags) ==
    LET all_possible_sample_counts == <<1, 2, 4, 8, 16>>
        Supported(sc) == sample_count_supported(flags, sc)
    IN  SelectSeq(all_possible_sample_counts, Supported)

----------------------------------------------------------------------------
(* Serialize and Deserialize for TextureFormat *)

\* Result<T, E>
Ok(x) == <<"Ok", x>>
Err == <<"Err", "invalid_value">>

\* str::strip_prefix
StripPrefix(s, prefix) ==
    IF Len(s) >= Len(prefix) /\ SubSeq(s, 1, Len(prefix)) = prefix
    THEN Some(SubSeq(s, Len(prefix) + 1, Len(s)))
    ELSE None

\* str::split_once splitting at the last occurrence of the delimiter
\* (str::rsplit_once).
SplitOnce_Last(s, delimiter) ==
    LET at == {i \in 1..Len(s) : SubSeq(s, i, i) = delimiter}
    IN  IF at = {} THEN None
        ELSE LET i == CHOOSE j \in at : \A k \in at : k <= j
             IN  Some(<<SubSeq(s, 1, i - 1), SubSeq(s, i + 1, Len(s))>>)

\* str::split_once: split at the first occurrence of the delimiter.
SplitOnce(s, delimiter) ==
    LET at == {i \in 1..Len(s) : SubSeq(s, i, i) = delimiter}
    IN  IF at = {} THEN None
        ELSE LET i == CHOOSE j \in at : \A k \in at : j <= k
             IN  Some(<<SubSeq(s, 1, i - 1), SubSeq(s, i + 1, Len(s))>>)

\* The string arms of `match s` in visit_str: <<string, variant>>.
VisitStrFormats ==
    { <<"r8unorm", "R8Unorm">>, <<"r8snorm", "R8Snorm">>,
      <<"r8uint", "R8Uint">>, <<"r8sint", "R8Sint">>,
      <<"r16uint", "R16Uint">>, <<"r16sint", "R16Sint">>,
      <<"r16unorm", "R16Unorm">>, <<"r16snorm", "R16Snorm">>,
      <<"r16float", "R16Float">>, <<"rg8unorm", "Rg8Unorm">>,
      <<"rg8snorm", "Rg8Snorm">>, <<"rg8uint", "Rg8Uint">>,
      <<"rg8sint", "Rg8Sint">>, <<"r32uint", "R32Uint">>,
      <<"r32sint", "R32Sint">>, <<"r32float", "R32Float">>,
      <<"rg16uint", "Rg16Uint">>, <<"rg16sint", "Rg16Sint">>,
      <<"rg16unorm", "Rg16Unorm">>, <<"rg16snorm", "Rg16Snorm">>,
      <<"rg16float", "Rg16Float">>, <<"rgba8unorm", "Rgba8Unorm">>,
      <<"rgba8unorm-srgb", "Rgba8UnormSrgb">>,
      <<"rgba8snorm", "Rgba8Snorm">>, <<"rgba8uint", "Rgba8Uint">>,
      <<"rgba8sint", "Rgba8Sint">>, <<"bgra8unorm", "Bgra8Unorm">>,
      <<"bgra8unorm-srgb", "Bgra8UnormSrgb">>,
      <<"rgb10a2uint", "Rgb10a2Uint">>, <<"rgb10a2unorm", "Rgb10a2Unorm">>,
      <<"rg11b10ufloat", "Rg11b10Ufloat">>, <<"rg32uint", "Rg32Uint">>,
      <<"rg32sint", "Rg32Sint">>, <<"rg32float", "Rg32Float">>,
      <<"rgba16uint", "Rgba16Uint">>, <<"rgba16sint", "Rgba16Sint">>,
      <<"rgba16unorm", "Rgba16Unorm">>, <<"rgba16snorm", "Rgba16Snorm">>,
      <<"rgba16float", "Rgba16Float">>, <<"rgba32uint", "Rgba32Uint">>,
      <<"rgba32sint", "Rgba32Sint">>, <<"rgba32float", "Rgba32Float">>,
      <<"stencil8", "Stencil8">>, <<"depth32float", "Depth32Float">>,
      <<"depth32float-stencil8", "Depth32FloatStencil8">>,
      <<"depth16unorm", "Depth16Unorm">>, <<"depth24plus", "Depth24Plus">>,
      <<"depth24plus-stencil8", "Depth24PlusStencil8">>,
      <<"nv12", "NV12">>, <<"rgb9e5ufloat", "Rgb9e5Ufloat">>,
      <<"bc1-rgba-unorm", "Bc1RgbaUnorm">>,
      <<"bc1-rgba-unorm-srgb", "Bc1RgbaUnormSrgb">>,
      <<"bc2-rgba-unorm", "Bc2RgbaUnorm">>,
      <<"bc2-rgba-unorm-srgb", "Bc2RgbaUnormSrgb">>,
      <<"bc3-rgba-unorm", "Bc3RgbaUnorm">>,
      <<"bc3-rgba-unorm-srgb", "Bc3RgbaUnormSrgb">>,
      <<"bc4-r-unorm", "Bc4RUnorm">>, <<"bc4-r-snorm", "Bc4RSnorm">>,
      <<"bc5-rg-unorm", "Bc5RgUnorm">>, <<"bc5-rg-snorm", "Bc5RgSnorm">>,
      <<"bc6h-rgb-ufloat", "Bc6hRgbUfloat">>,
      <<"bc6h-rgb-float", "Bc6hRgbFloat">>,
      <<"bc7-rgba-unorm", "Bc7RgbaUnorm">>,
      <<"bc7-rgba-unorm-srgb", "Bc7RgbaUnormSrgb">>,
      <<"etc2-rgb8unorm", "Etc2Rgb8Unorm">>,
      <<"etc2-rgb8unorm-srgb", "Etc2Rgb8UnormSrgb">>,
      <<"etc2-rgb8a1unorm", "Etc2Rgb8A1Unorm">>,
      <<"etc2-rgb8a1unorm-srgb", "Etc2Rgb8A1UnormSrgb">>,
      <<"etc2-rgba8unorm", "Etc2Rgba8Unorm">>,
      <<"etc2-rgba8unorm-srgb", "Etc2Rgba8UnormSrgb">>,
      <<"eac-r11unorm", "EacR11Unorm">>, <<"eac-r11snorm", "EacR11Snorm">>,
      <<"eac-rg11unorm", "EacRg11Unorm">>,
      <<"eac-rg11snorm", "EacRg11Snorm">> }

\* The arms of `match block` in visit_str: <<string, AstcBlock>>.
VisitStrBlocks ==
    { <<"4x4", "B4x4">>, <<"5x4", "B5x4">>, <<"5x5", "B5x5">>,
      <<"6x5", "B6x5">>, <<"6x6", "B6x6">>, <<"8x5", "B8x5">>,
      <<"8x6", "B8x6">>, <<"8x8", "B8x8">>, <<"10x5", "B10x5">>,
      <<"10x6", "B10x6">>, <<"10x8", "B10x8">>, <<"10x10", "B10x10">>,
      <<"12x10", "B12x10">>, <<"12x12", "B12x12">> }

\* The arms of `match channel` in visit_str: <<string, AstcChannel>>.
VisitStrChannels ==
    { <<"unorm", "Unorm">>, <<"unorm-srgb", "UnormSrgb">>,
      <<"hdr", "Hdr">> }

\* A `match` of a string against the string arms of a table; None is the
\* fall-through arm.
MatchStr(table, s) ==
    IF \E row \in table : row[1] = s
    THEN Some((CHOOSE row \in table : row[1] = s)[2])
    ELSE None

\* The `other =>` arm of visit_str with an unknown channel read as
\* AstcChannel::Unorm.
VisitStrAstc_DefaultUnorm(s) ==
    LET parts == StripPrefix(s, "astc-")
    IN  IF parts = None THEN Err
        ELSE LET split == SplitOnce(parts[1], "-")
             IN  IF split = None THEN Err
                 ELSE LET block == MatchStr(VisitStrBlocks, split[1][1])
                          channel == MatchStr(VisitStrChannels, split[1][2])
                      IN  IF block = None THEN Err
                          ELSE IF channel = None
                          THEN Ok(Astc(block[1], "Unorm"))
                          ELSE Ok(Astc(block[1], channel[1]))

\* The `other =>` arm of visit_str.
VisitStrAstc(s) ==
    LET parts == StripPrefix(s, "astc-")
    IN  IF parts = None THEN Err
        ELSE LET split == SplitOnce(parts[1], "-")
             IN  IF split = None THEN Err
                 ELSE LET block == MatchStr(VisitStrBlocks, split[1][1])
                          channel == MatchStr(VisitStrChannels, split[1][2])
                      IN  IF block = None THEN Err
                          ELSE IF channel = None THEN Err
                          ELSE Ok(Astc(block[1], channel[1]))

\* TextureFormatVisitor::visit_str
visit_str(s) ==
    LET plain == MatchStr(VisitStrFormats, s)
    IN  IF plain # None THEN Ok(Fmt(plain[1])) ELSE VisitStrAstc(s)

\* The arms of `match *self` in serialize for the variants without data:
\* <<variant, string>>.
SerializeFormats ==
    { <<"R8Unorm", "r8unorm">>, <<"R8Snorm", "r8snorm">>,
      <<"R8Uint", "r8uint">>, <<"R8Sint", "r8sint">>,
      <<"R16Uint", "r16uint">>, <<"R16Sint", "r16sint">>,
      <<"R16Unorm", "r16unorm">>, <<"R16Snorm", "r16snorm">>,
      <<"R16Float", "r16float">>, <<"Rg8Unorm", "rg8unorm">>,
      <<"Rg8Snorm", "rg8snorm">>, <<"Rg8Uint", "rg8uint">>,
      <<"Rg8Sint", "rg8sint">>, <<"R32Uint", "r32uint">>,
      <<"R32Sint", "r32sint">>, <<"R32Float", "r32float">>,
      <<"Rg16Uint", "rg16uint">>, <<"Rg16Sint", "rg16sint">>,
      <<"Rg16Unorm", "rg16unorm">>, <<"Rg16Snorm", "rg16snorm">>,
      <<"Rg16Float", "rg16float">>, <<"Rgba8Unorm", "rgba8unorm">>,
      <<"Rgba8UnormSrgb", "rgba8unorm-srgb">>,
      <<"Rgba8Snorm", "rgba8snorm">>, <<"Rgba8Uint", "rgba8uint">>,
      <<"Rgba8Sint", "rgba8sint">>, <<"Bgra8Unorm", "bgra8unorm">>,
      <<"Bgra8UnormSrgb", "bgra8unorm-srgb">>,
      <<"Rgb10a2Uint", "rgb10a2uint">>, <<"Rgb10a2Unorm", "rgb10a2unorm">>,
      <<"Rg11b10Ufloat", "rg11b10ufloat">>, <<"Rg32Uint", "rg32uint">>,
      <<"Rg32Sint", "rg32sint">>, <<"Rg32Float", "rg32float">>,
      <<"Rgba16Uint", "rgba16uint">>, <<"Rgba16Sint", "rgba16sint">>,
      <<"Rgba16Unorm", "rgba16unorm">>, <<"Rgba16Snorm", "rgba16snorm">>,
      <<"Rgba16Float", "rgba16float">>, <<"Rgba32Uint", "rgba32uint">>,
      <<"Rgba32Sint", "rgba32sint">>, <<"Rgba32Float", "rgba32float">>,
      <<"Stencil8", "stencil8">>, <<"Depth32Float", "depth32float">>,
      <<"Depth16Unorm", "depth16unorm">>,
      <<"Depth32FloatStencil8", "depth32float-stencil8">>,
      <<"Depth24Plus", "depth24plus">>,
      <<"Depth24PlusStencil8", "depth24plus-stencil8">>,
      <<"NV12", "nv12">>, <<"Rgb9e5Ufloat", "rgb9e5ufloat">>,
      <<"Bc1RgbaUnorm", "bc1-rgba-unorm">>,
      <<"Bc1RgbaUnormSrgb", "bc1-rgba-unorm-srgb">>,
      <<"Bc2RgbaUnorm", "bc2-rgba-unorm">>,
      <<"Bc2RgbaUnormSrgb", "bc2-rgba-unorm-srgb">>,
      <<"Bc3RgbaUnorm", "bc3-rgba-unorm">>,
      <<"Bc3RgbaUnormSrgb", "bc3-rgba-unorm-srgb">>,
      <<"Bc4RUnorm", "bc4-r-unorm">>, <<"Bc4RSnorm", "bc4-r-snorm">>,
      <<"Bc5RgUnorm", "bc5-rg-unorm">>, <<"Bc5RgSnorm", "bc5-rg-snorm">>,
      <<"Bc6hRgbUfloat", "bc6h-rgb-ufloat">>,
      <<"Bc6hRgbFloat", "bc6h-rgb-float">>,
      <<"Bc7RgbaUnorm", "bc7-rgba-unorm">>,
      <<"Bc7RgbaUnormSrgb", "bc7-rgba-unorm-srgb">>,
      <<"Etc2Rgb8Unorm", "etc2-rgb8unorm">>,
      <<"Etc2Rgb8UnormSrgb", "etc2-rgb8unorm-srgb">>,
      <<"Etc2Rgb8A1Unorm", "etc2-rgb8a1unorm">>,
      <<"Etc2Rgb8A1UnormSrgb", "etc2-rgb8a1unorm-srgb">>,
      <<"Etc2Rgba8Unorm", "etc2-rgba8unorm">>,
      <<"Etc2Rgba8UnormSrgb", "etc2-rgba8unorm-srgb">>,
      <<"EacR11Unorm", "eac-r11unorm">>, <<"EacR11Snorm", "eac-r11snorm">>,
      <<"EacRg11Unorm", "eac-rg11unorm">>,
      <<"EacRg11Snorm", "eac-rg11snorm">> }

\* The `match block` of serialize: <<AstcBlock, string>>.
SerializeBlocks ==
    { <<"B4x4", "4x4">>, <<"B5x4", "5x4">>, <<"B5x5", "5x5">>,
      <<"B6x5", "6x5">>, <<"B6x6", "6x6">>, <<"B8x5", "8x5">>,
      <<"B8x6", "8x6">>, <<"B8x8", "8x8">>, <<"B10x5", "10x5">>,
      <<"B10x6", "10x6">>, <<"B10x8", "10x8">>, <<"B10x10", "10x10">>,
      <<"B12x10", "12x10">>, <<"B12x12", "12x12">> }

\* The `match channel` of serialize: <<AstcChannel, string>>.
SerializeChannels ==
    { <<"Unorm", "unorm">>, <<"UnormSrgb", "unorm-srgb">>,
      <<"Hdr", "hdr">> }

\* An exhaustive `match` of an enum value against a table.
MatchEnum(table, v) == (CHOOSE row \in table : row[1] = v)[2]

\* impl Serialize for TextureFormat: the string given to serialize_str.
serialize(self) ==
    IF self.tag = "Astc"
    THEN "astc-" \o MatchEnum(SerializeBlocks, self.block)
                 \o "-" \o MatchEnum(SerializeChannels, self.channel)
    ELSE MatchEnum(SerializeFormats, self.tag)

----------------------------------------------------------------------------
(* Block dimensions, required features, components and sRGB suffixes *)

\* The `match block` of block_dimensions.
BlockDimensionsAstc(block) ==
    CASE block = "B4x4" -> <<4, 4>>
      [] block = "B5x4" -> <<5, 4>>
      [] block = "B5x5" -> <<5, 5>>
      [] block = "B6x5" -> <<6, 5>>
      [] block = "B6x6" -> <<6, 6>>
      [] block = "B8x5" -> <<8, 5>>
      [] block = "B8x6" -> <<8, 6>>
      [] block = "B8x8" -> <<8, 8>>
      [] block = "B10x5" -> <<10, 5>>
      [] block = "B10x6" -> <<10, 6>>
      [] block = "B10x8" -> <<10, 8>>
      [] block = "B10x10" -> <<10, 10>>
      [] block = "B12x10" -> <<12, 10>>
      [] block = "B12x12" -> <<12, 12>>

\* TextureFormat::block_dimensions
block_dimensions(self) ==
    CASE self.tag \in {"R8Unorm", "R8Snorm", "R8Uint", "R8Sint", "R16Uint",
                       "R16Sint", "R16Unorm", "R16Snorm", "R16Float",
                       "Rg8Unorm", "Rg8Snorm", "Rg8Uint", "Rg8Sint",
                       "R32Uint", "R32Sint", "R32Float", "Rg16Uint",
                       "Rg16Sint", "Rg16Unorm", "Rg16Snorm", "Rg16Float",
                       "Rgba8Unorm", "Rgba8UnormSrgb", "Rgba8Snorm",
                       "Rgba8Uint", "Rgba8Sint", "Bgra8Unorm",
                       "Bgra8UnormSrgb", "Rgb9e5Ufloat", "Rgb10a2Uint",
                       "Rgb10a2Unorm", "Rg11b10Ufloat", "Rg32Uint",
                       "Rg32Sint", "Rg32Float", "Rgba16Uint", "Rgba16Sint",
                       "Rgba16Unorm", "Rgba16Snorm", "Rgba16Float",
                       "Rgba32Uint", "Rgba32Sint", "Rgba32Float",
                       "Stencil8", "Depth16Unorm", "Depth24Plus",
                       "Depth24PlusStencil8", "Depth32Float",
                       "Depth32FloatStencil8", "NV12"} ->
            <<1, 1>>
      [] self.tag \in {"Bc1RgbaUnorm", "Bc1RgbaUnormSrgb", "Bc2RgbaUnorm",
                       "Bc2RgbaUnormSrgb", "Bc3RgbaUnorm",
                       "Bc3RgbaUnormSrgb", "Bc4RUnorm", "Bc4RSnorm",
                       "Bc5RgUnorm", "Bc5RgSnorm", "Bc6hRgbUfloat",
                       "Bc6hRgbFloat", "Bc7RgbaUnorm", "Bc7RgbaUnormSrgb"} ->
            <<4, 4>>
      [] self.tag \in {"Etc2Rgb8Unorm", "Etc2Rgb8UnormSrgb",
                       "Etc2Rgb8A1Unorm", "Etc2Rgb8A1UnormSrgb",
                       "Etc2Rgba8Unorm", "Etc2Rgba8UnormSrgb",
                       "EacR11Unorm", "EacR11Snorm", "EacRg11Unorm",
                       "EacRg11Snorm"} ->
            <<4, 4>>
      [] self.tag = "Astc" ->
            BlockDimensionsAstc(self.block)

\* The `match channel` of required_features, with Hdr requiring the base
\* ASTC feature as well.
RequiredFeaturesAstc_HdrWithBase(channel) ==
    IF channel = "Hdr"
    THEN {"TEXTURE_COMPRESSION_ASTC", "TEXTURE_COMPRESSION_ASTC_HDR"}
    ELSE {"TEXTURE_COMPRESSION_ASTC"}

\* The `match channel` of required_features.
RequiredFeaturesAstc(channel) ==
    CASE channel = "Hdr" -> {"TEXTURE_COMPRESSION_ASTC_HDR"}
      [] channel \in {"Unorm", "UnormSrgb"} -> {"TEXTURE_COMPRESSION_ASTC"}

\* TextureFormat::required_features
required_features(self) ==
    CASE self.tag \in {"R8Unorm", "R8Snorm", "R8Uint", "R8Sint", "R16Uint",
                       "R16Sint", "R16Float", "Rg8Unorm", "Rg8Snorm",
                       "Rg8Uint", "Rg8Sint", "R32Uint", "R32Sint",
                       "R32Float", "Rg16Uint", "Rg16Sint", "Rg16Float",
                       "Rgba8Unorm", "Rgba8UnormSrgb", "Rgba8Snorm",
                       "Rgba8Uint", "Rgba8Sint", "Bgra8Unorm",
                       "Bgra8UnormSrgb", "Rgb9e5Ufloat", "Rgb10a2Uint",
                       "Rgb10a2Unorm", "Rg11b10Ufloat", "Rg32Uint",
                       "Rg32Sint", "Rg32Float", "Rgba16Uint", "Rgba16Sint",
                       "Rgba16Float", "Rgba32Uint", "Rgba32Sint",
                       "Rgba32Float", "Stencil8", "Depth16Unorm",
                       "Depth24Plus", "Depth24PlusStencil8", "Depth32Float"} ->
            {}
      [] self.tag = "Depth32FloatStencil8" ->
            {"DEPTH32FLOAT_STENCIL8"}
      [] self.tag = "NV12" ->
            {"TEXTURE_FORMAT_NV12"}
      [] self.tag \in {"R16Unorm", "R16Snorm", "Rg16Unorm", "Rg16Snorm",
                       "Rgba16Unorm", "Rgba16Snorm"} ->
            {"TEXTURE_FORMAT_16BIT_NORM"}
      [] self.tag \in {"Bc1RgbaUnorm", "Bc1RgbaUnormSrgb", "Bc2RgbaUnorm",
                       "Bc2RgbaUnormSrgb", "Bc3RgbaUnorm",
                       "Bc3RgbaUnormSrgb", "Bc4RUnorm", "Bc4RSnorm",
                       "Bc5RgUnorm", "Bc5RgSnorm", "Bc6hRgbUfloat",
                       "Bc6hRgbFloat", "Bc7RgbaUnorm", "Bc7RgbaUnormSrgb"} ->
            {"TEXTURE_COMPRESSION_BC"}
      [] self.tag \in {"Etc2Rgb8Unorm", "Etc2Rgb8UnormSrgb",
                       "Etc2Rgb8A1Unorm", "Etc2Rgb8A1UnormSrgb",
                       "Etc2Rgba8Unorm", "Etc2Rgba8UnormSrgb",
                       "EacR11Unorm", "EacR11Snorm", "EacRg11Unorm",
                       "EacRg11Snorm"} ->
            {"TEXTURE_COMPRESSION_ETC2"}
      [] self.tag = "Astc" ->
            RequiredFeaturesAstc(self.channel)

\* TextureFormat::is_bcn
is_bcn(self) == required_features(self) = {"TEXTURE_COMPRESSION_BC"}

\* The `match aspect` of components_with_aspect for the combined
\* depth-stencil formats, naming DepthOnly alone.
ComponentsWithAspectDepthStencil_DepthOnlyAlone(aspect_) ==
    IF aspect_ = "DepthOnly" THEN 1 ELSE 2

\* The `match aspect` of components_with_aspect for Depth24PlusStencil8 and
\* Depth32FloatStencil8.
ComponentsWithAspectDepthStencil(aspect_) ==
    IF aspect_ \in {"DepthOnly", "StencilOnly"} THEN 1 ELSE 2

\* The `match aspect` of components_with_aspect for NV12.
ComponentsWithAspectNV12(aspect_) ==
    IF aspect_ = "Plane0" THEN 1
    ELSE IF aspect_ = "Plane1" THEN 2
    ELSE 3

\* TextureFormat::components_with_aspect
components_with_aspect(self, aspect_) ==
    CASE self.tag \in {"R8Unorm", "R8Snorm", "R8Uint", "R8Sint", "R16Unorm",
                       "R16Snorm", "R16Uint", "R16Sint", "R16Float",
                       "R32Uint", "R32Sint", "R32Float"} ->
            1
      [] self.tag \in {"Rg8Unorm", "Rg8Snorm", "Rg8Uint", "Rg8Sint",
                       "Rg16Unorm", "Rg16Snorm", "Rg16Uint", "Rg16Sint",
                       "Rg16Float", "Rg32Uint", "Rg32Sint", "Rg32Float"} ->
            2
      [] self.tag \in {"Rgba8Unorm", "Rgba8UnormSrgb", "Rgba8Snorm",
                       "Rgba8Uint", "Rgba8Sint", "Bgra8Unorm",
                       "Bgra8UnormSrgb", "Rgba16Unorm", "Rgba16Snorm",
                       "Rgba16Uint", "Rgba16Sint", "Rgba16Float",
                       "Rgba32Uint", "Rgba32Sint", "Rgba32Float"} ->
            4
      [] self.tag \in {"Rgb9e5Ufloat", "Rg11b10Ufloat"} ->
            3
      [] self.tag \in {"Rgb10a2Uint", "Rgb10a2Unorm"} ->
            4
      [] self.tag \in {"Stencil8", "Depth16Unorm", "Depth24Plus",
                       "Depth32Float"} ->
            1
      [] self.tag \in {"Depth24PlusStencil8", "Depth32FloatStencil8"} ->
            ComponentsWithAspectDepthStencil(aspect_)
      [] self.tag = "NV12" ->
            ComponentsWithAspectNV12(aspect_)
      [] self.tag \in {"Bc4RUnorm", "Bc4RSnorm"} ->
            1
      [] self.tag \in {"Bc5RgUnorm", "Bc5RgSnorm"} ->
            2
      [] self.tag \in {"Bc6hRgbUfloat", "Bc6hRgbFloat"} ->
            3
      [] self.tag \in {"Bc1RgbaUnorm", "Bc1RgbaUnormSrgb", "Bc2RgbaUnorm",
                       "Bc2RgbaUnormSrgb", "Bc3RgbaUnorm",
                       "Bc3RgbaUnormSrgb", "Bc7RgbaUnorm",
                       "Bc7RgbaUnormSrgb"} ->
            4
      [] self.tag \in {"EacR11Unorm", "EacR11Snorm"} ->
            1
      [] self.tag \in {"EacRg11Unorm", "EacRg11Snorm"} ->
            2
      [] self.tag \in {"Etc2Rgb8Unorm", "Etc2Rgb8UnormSrgb"} ->
            3
      [] self.tag \in {"Etc2Rgb8A1Unorm", "Etc2Rgb8A1UnormSrgb",
                       "Etc2Rgba8Unorm", "Etc2Rgba8UnormSrgb"} ->
            4
      [] self.tag = "Astc" ->
            4

\* TextureFormat::components
components(self) == components_with_aspect(self, "All")

\* TextureFormat::has_depth_aspect
has_depth_aspect(self) ==
    self.tag \in {"Depth16Unorm", "Depth24Plus", "Depth24PlusStencil8",
                  "Depth32Float", "Depth32FloatStencil8"}

\* has_stencil_aspect without the Stencil8 arm.
has_stencil_aspect_CombinedOnly(self) ==
    self.tag \in {"Depth24PlusStencil8", "Depth32FloatStencil8"}

\* TextureFormat::has_stencil_aspect
has_stencil_aspect(self) ==
    self.tag \in {"Stencil8", "Depth24PlusStencil8", "Depth32FloatStencil8"}

\* The arms of remove_srgb_suffix for the variants without data:
\* <<variant, variant without the suffix>>.
RemoveSrgbSuffixFormats ==
    { <<"Rgba8UnormSrgb", "Rgba8Unorm">>, <<"Bgra8UnormSrgb", "Bgra8Unorm">>,
      <<"Bc1RgbaUnormSrgb", "Bc1RgbaUnorm">>,
      <<"Bc2RgbaUnormSrgb", "Bc2RgbaUnorm">>,
      <<"Bc3RgbaUnormSrgb", "Bc3RgbaUnorm">>,
      <<"Bc7RgbaUnormSrgb", "Bc7RgbaUnorm">>,
      <<"Etc2Rgb8UnormSrgb", "Etc2Rgb8Unorm">>,
      <<"Etc2Rgb8A1UnormSrgb", "Etc2Rgb8A1Unorm">>,
      <<"Etc2Rgba8UnormSrgb", "Etc2Rgba8Unorm">> }

\* TextureFormat::remove_srgb_suffix
remove_srgb_suffix(self) ==
    LET plain == MatchStr(RemoveSrgbSuffixFormats, self.tag)
    IN  IF plain # None THEN Fmt(plain[1])
        ELSE IF self.tag = "Astc" /\ self.channel = "UnormSrgb"
        THEN Astc(self.block, "Unorm")
        ELSE self

\* The arms of add_srgb_suffix for the variants without data:
\* <<variant, variant with the suffix>>.
AddSrgbSuffixFormats ==
    { <<"Rgba8Unorm", "Rgba8UnormSrgb">>, <<"Bgra8Unorm", "Bgra8UnormSrgb">>,
      <<"Bc1RgbaUnorm", "Bc1RgbaUnormSrgb">>,
      <<"Bc2RgbaUnorm", "Bc2RgbaUnormSrgb">>,
      <<"Bc3RgbaUnorm", "Bc3RgbaUnormSrgb">>,
      <<"Bc7RgbaUnorm", "Bc7RgbaUnormSrgb">>,
      <<"Etc2Rgb8Unorm", "Etc2Rgb8UnormSrgb">>,
      <<"Etc2Rgb8A1Unorm", "Etc2Rgb8A1UnormSrgb">>,
      <<"Etc2Rgba8Unorm", "Etc2Rgba8UnormSrgb">> }

\* add_srgb_suffix with the Astc arm matching every channel.
add_srgb_suffix_AnyAstcChannel(self) ==
    LET plain == MatchStr(AddSrgbSuffixFormats, self.tag)
    IN  IF plain # None THEN Fmt(plain[1])
        ELSE IF self.tag = "Astc"
        THEN Astc(self.block, "UnormSrgb")
        ELSE self

\* TextureFormat::add_srgb_suffix
add_srgb_suffix(self) ==
    LET plain == MatchStr(AddSrgbSuffixFormats, self.tag)
    IN  IF plain # None THEN Fmt(plain[1])
        ELSE IF self.tag = "Astc" /\ self.channel = "Unorm"
        THEN Astc(self.block, "UnormSrgb")
        ELSE self

\* TextureFormat::is_srgb
is_srgb(self) == self # remove_srgb_suffix(self)

----------------------------------------------------------------------------
(* Extent3d: u32 arithmetic, physical_size, max_mips, mip_level_size *)

\* A u32 is held as two 16-bit halves, [hi, lo], of value hi * 2^16 + lo.
Half == 2 ^ 16

U32(hi_, lo_) == [hi |-> hi_, lo |-> lo_]

\* A u32 from a number below 2^16.
Small(n) == U32(0, n)

\* u32::MAX - k for a number k below 2^16.
FromTop(k) == U32(Half - 1, Half - 1 - k)

\* Ord on u32.
U32Less(a, b) == a.hi < b.hi \/ (a.hi = b.hi /\ a.lo < b.lo)

U32LessEq(a, b) == a = b \/ U32Less(a, b)

\* u32::max
U32Max(a, b) == IF U32Less(a, b) THEN b ELSE a

\* `a + b` on u32: the wrapped sum and whether it overflowed.
U32Add(a, b) ==
    LET lo_ == a.lo + b.lo
        hi_ == a.hi + b.hi + (lo_ \div Half)
    IN  [value |-> U32(hi_ % Half, lo_ % Half), overflow |-> hi_ >= Half]

\* `a - b` on u32: the wrapped difference and whether it overflowed.
U32Sub(a, b) ==
    LET borrow == IF a.lo < b.lo THEN 1 ELSE 0
        lo_ == a.lo - b.lo + borrow * Half
        hi_ == a.hi - b.hi - borrow
    IN  [value |-> U32((hi_ + Half) % Half, lo_), overflow |-> hi_ < 0]

\* `a / d` on u32 for a divisor d with 0 < d < 2^16.
U32Div(a, d) ==
    LET rem == (a.hi % d) * Half + a.lo
    IN  U32(a.hi \div d, rem \div d)

\* `a * d` on u32 for a factor d below 2^15: the wrapped product and whether
\* it overflowed.
U32Mul(a, d) ==
    LET lo_ == a.lo * d
        hi_ == a.hi * d + (lo_ \div Half)
    IN  [value |-> U32(hi_ % Half, lo_ % Half), overflow |-> hi_ >= Half]

\* `a >> k` on u32 for 0 <= k < 32.
U32Shr(a, k) ==
    IF k >= 16
    THEN U32(0, a.hi \div (2 ^ (k - 16)))
    ELSE U32(a.hi \div (2 ^ k),
             (a.hi % (2 ^ k)) * (2 ^ (16 - k)) + (a.lo \div (2 ^ k)))

\* `a << 1` on u32, the top bit dropped.
U32Shl1(a) == U32((a.hi * 2 + (a.lo \div (Half \div 2))) % Half,
                  (a.lo * 2) % Half)

\* u32::leading_zeros: the number of zero bits above the highest set bit.
RECURSIVE LeadingZerosFrom(_, _)
LeadingZerosFrom(a, n) ==
    IF n = 32 \/ a.hi >= Half \div 2 THEN n
    ELSE LeadingZerosFrom(U32Shl1(a), n + 1)

leading_zeros(a) == LeadingZerosFrom(a, 0)

\* A panic of the running thread.
Panic == [panic |-> TRUE]

\* struct Extent3d
Extent3d(w, h, d) == [width |-> w, height |-> h, depth_or_array_layers |-> d]

\* enum TextureDimension
TextureDimensions == {"D1", "D2", "D3"}

\* `(x + block - 1) / block * block` of physical_size.  In a build with
\* overflow checks (`checked`, a debug build) an overflowing `+` or `-`
\* panics; without them (a release build) it wraps.  None stands for the
\* panic.
RoundUpToBlock(x, block, checked) ==
    LET sum == U32Add(x, Small(block))
        dif == U32Sub(sum.value, Small(1))
        mul == U32Mul(U32Div(dif.value, block), block)
    IN  IF checked /\ (sum.overflow \/ dif.overflow \/ mul.overflow)
        THEN None
        ELSE Some(mul.value)

\* Extent3d::physical_size
physical_size(self, format_, checked) ==
    LET block_width == block_dimensions(format_)[1]
        block_height == block_dimensions(format_)[2]
        width == RoundUpToBlock(self.width, block_width, checked)
    IN  IF width = None THEN Panic
        ELSE LET height == RoundUpToBlock(self.height, block_height,
                                          checked)
             IN  IF height = None THEN Panic
                 ELSE Extent3d(width[1], height[1],
                               self.depth_or_array_layers)

\* max_mips taking the depth into account for D2 as well.
max_mips_DepthInD2(self, dim_) ==
    CASE dim_ = "D1" -> 1
      [] dim_ \in {"D2", "D3"} ->
            LET max_dim == U32Max(self.width,
                                  U32Max(self.height,
                                         self.depth_or_array_layers))
            IN  32 - leading_zeros(max_dim)

\* Extent3d::max_mips
max_mips(self, dim_) ==
    CASE dim_ = "D1" -> 1
      [] dim_ = "D2" ->
            LET max_dim == U32Max(self.width, self.height)
            IN  32 - leading_zeros(max_dim)
      [] dim_ = "D3" ->
            LET max_dim == U32Max(self.width,
                                  U32Max(self.height,
                                         self.depth_or_array_layers))
            IN  32 - leading_zeros(max_dim)

\* `u32::max(1, x >> level)` of mip_level_size.  A shift by 32 or more
\* panics with overflow checks and shifts by level % 32 without them.
MipDimension(x, level_, checked) ==
    IF level_ >= 32 /\ checked THEN None
    ELSE Some(U32Max(Small(1), U32Shr(x, level_ % 32)))

\* Extent3d::mip_level_size
mip_level_size(self, level_, dim_, checked) ==
    LET width == MipDimension(self.width, level_, checked)
        height == IF dim_ = "D1" THEN Some(Small(1))
                  ELSE MipDimension(self.height, level_, checked)
        depth == CASE dim_ = "D1" -> Some(Small(1))
                   [] dim_ = "D2" -> Some(self.depth_or_array_layers)
                   [] dim_ = "D3" ->
                        MipDimension(self.depth_or_array_layers, level_,
                                     checked)
    IN  IF width = None \/ height = None \/ depth = None THEN Panic
        ELSE Extent3d(width[1], height[1], depth[1])

----------------------------------------------------------------------------
(* The calls of the format functions that are explored *)

\* The features the format functions test, and one they do not.
ExploredFeatures ==
    {"FLOAT32_FILTERABLE", "RG11B10UFLOAT_RENDERABLE", "BGRA8UNORM_STORAGE",
     "TEXTURE_COMPRESSION_BC"}

FeatureSets == SUBSET ExploredFeatures

OptionAspects == {None} \cup {Some(a) : a \in TextureAspects}

OptionFeatures == {None} \cup {Some(fs) : fs \in FeatureSets}

\* The block tokens given to the deserializer: the ones it names and some
\* it does not.
ExploredBlockTokens ==
    {row[1] : row \in VisitStrBlocks}
        \cup {"", "4", "4x", "x4", "3x3", "4x5", "12x8", "B4x4", "4X4"}

\* The channel tokens given to the deserializer.
ExploredChannelTokens ==
    {row[1] : row \in VisitStrChannels}
        \cup {"", "srgb", "unorm-", "unorm-srgb-hdr", "Unorm", "snorm", "ldr"}

\* The strings given to the deserializer: every string the deserializer
\* names, "astc-" strings of explored tokens with and without the second
\* separator, and other strings.
ExploredStrings ==
    {row[1] : row \in VisitStrFormats}
        \cup {"astc-" \o b \o sep \o c :
                b \in ExploredBlockTokens, sep \in {"-", "", "_"},
                c \in ExploredChannelTokens}
        \cup {"", "astc", "astc-", "astc--", "-", "astc4x4-unorm",
              "ASTC-4x4-unorm", "astc-4x4-unorm ", " astc-4x4-unorm",
              "R8Unorm", "r8-unorm", "r8unorm ", "r8", "rgba8unormsrgb",
              "rgba8unorm-srgb-", "depth24plus-stencil", "nv21", "Astc",
              "bc1-rgba", "etc2-rgb8unorm-hdr", "r64uint"}

\* No limits are passed to the format functions.
NoLimitArgs ==
    /\ requested = UniformLimits
    /\ allowed = UniformLimits
    /\ fatal = FALSE
    /\ within = TRUE
    /\ reports = <<>>
    /\ compared = <<>>

\* The inputs are a format with an optional aspect and an optional feature
\* set, or a format and a second format, or a string.
InitFormat ==
    /\ op = "idle"
    /\ result = None
    /\ NoLimitArgs
    /\ NoExtentArgs
    /\ \/ /\ format \in TextureFormats
          /\ aspect \in OptionAspects
          /\ features \in OptionFeatures
          /\ combined_format = NoFormat
          /\ text = NoText
       \/ /\ format \in TextureFormats
          /\ aspect = None
          /\ features = None
          /\ combined_format \in TextureFormats
          /\ text = NoText
       \/ /\ format = NoFormat
          /\ aspect = None
          /\ features = None
          /\ combined_format = NoFormat
          /\ text \in ExploredStrings

\* A call format.aspect_specific_format(aspect).
AspectSpecificFormat ==
    /\ op = "idle"
    /\ format # NoFormat
    /\ combined_format = NoFormat
    /\ aspect # None
    /\ op' = "aspect_specific_format"
    /\ result' = aspect_specific_format(format, aspect[1])
    /\ UNCHANGED <<formatArgs, text>>
    /\ UNCHANGED limitVars

\* A call format.sample_type(aspect, features).
SampleType ==
    /\ op = "idle"
    /\ format # NoFormat
    /\ combined_format = NoFormat
    /\ op' = "sample_type"
    /\ result' = sample_type(format, aspect, features)
    /\ UNCHANGED <<formatArgs, text>>
    /\ UNCHANGED limitVars

\* A call format.guaranteed_format_features(features).
GuaranteedFormatFeatures ==
    /\ op = "idle"
    /\ format # NoFormat
    /\ combined_format = NoFormat
    /\ features # None
    /\ op' = "guaranteed_format_features"
    /\ result' = guaranteed_format_features(format, features[1])
    /\ UNCHANGED <<formatArgs, text>>
    /\ UNCHANGED limitVars

\* A call flags.supported_sample_counts() on the flags that
\* guaranteed_format_features returned.
SupportedSampleCounts ==
    /\ op = "guaranteed_format_features"
    /\ op' = "supported_sample_counts"
    /\ result' = supported_sample_counts(result.flags)
    /\ UNCHANGED <<formatArgs, text>>
    /\ UNCHANGED limitVars

\* A call format.block_copy_size(aspect).
BlockCopySize ==
    /\ op = "idle"
    /\ format # NoFormat
    /\ combined_format = NoFormat
    /\ features = None
    /\ op' = "block_copy_size"
    /\ result' = block_copy_size(format, aspect)
    /\ UNCHANGED <<formatArgs, text>>
    /\ UNCHANGED limitVars

\* A call format.is_depth_stencil_component(combined_format).
IsDepthStencilComponent ==
    /\ op = "idle"
    /\ format # NoFormat
    /\ combined_format # NoFormat
    /\ op' = "is_depth_stencil_component"
    /\ result' = is_depth_stencil_component(format, combined_format)
    /\ UNCHANGED <<formatArgs, text>>
    /\ UNCHANGED limitVars

\* A call format.serialize(serializer): the serializer receives the string.
Serialize ==
    /\ op = "idle"
    /\ format # NoFormat
    /\ combined_format = NoFormat
    /\ aspect = None
    /\ features = None
    /\ op' = "serialize"
    /\ text' = serialize(format)
    /\ UNCHANGED <<formatArgs, result>>
    /\ UNCHANGED limitVars

\* A call TextureFormat::deserialize(deserializer) on a string: the string
\* given, or the one serialize has written.
Deserialize ==
    /\ op \in {"idle", "serialize"}
    /\ text # NoText
    /\ op' = IF op = "serialize" THEN "round_trip" ELSE "deserialize"
    /\ result' = visit_str(text)
    /\ UNCHANGED <<formatArgs, text>>
    /\ UNCHANGED limitVars

\* The calls that take the format alone are made with no other argument.
OnlyFormat ==
    /\ format # NoFormat
    /\ combined_format = NoFormat
    /\ aspect = None
    /\ features = None

\* A call format.block_dimensions().
BlockDimensions ==
    /\ op = "idle"
    /\ OnlyFormat
    /\ op' = "block_dimensions"
    /\ result' = block_dimensions(format)
    /\ UNCHANGED <<formatArgs, text>>
    /\ UNCHANGED limitVars

\* A call format.required_features().
RequiredFeatures ==
    /\ op = "idle"
    /\ OnlyFormat
    /\ op' = "required_features"
    /\ result' = required_features(format)
    /\ UNCHANGED <<formatArgs, text>>
    /\ UNCHANGED limitVars

\* A call format.is_bcn().
IsBcn ==
    /\ op = "idle"
    /\ OnlyFormat
    /\ op' = "is_bcn"
    /\ result' = is_bcn(format)
    /\ UNCHANGED <<formatArgs, text>>
    /\ UNCHANGED limitVars

\* A call format.components().
Components ==
    /\ op = "idle"
    /\ OnlyFormat
    /\ op' = "components"
    /\ result' = components(format)
    /\ UNCHANGED <<formatArgs, text>>
    /\ UNCHANGED limitVars

\* A call format.has_depth_aspect().
HasDepthAspect ==
    /\ op = "idle"
    /\ OnlyFormat
    /\ op' = "has_depth_aspect"
    /\ result' = has_depth_aspect(format)
    /\ UNCHANGED <<formatArgs, text>>
    /\ UNCHANGED limitVars

\* A call format.has_stencil_aspect().
HasStencilAspect ==
    /\ op = "idle"
    /\ OnlyFormat
    /\ op' = "has_stencil_aspect"
    /\ result' = has_stencil_aspect(format)
    /\ UNCHANGED <<formatArgs, text>>
    /\ UNCHANGED limitVars

\* A call format.remove_srgb_suffix().
RemoveSrgbSuffix ==
    /\ op = "idle"
    /\ OnlyFormat
    /\ op' = "remove_srgb_suffix"
    /\ result' = remove_srgb_suffix(format)
    /\ UNCHANGED <<formatArgs, text>>
    /\ UNCHANGED limitVars

\* A call format.add_srgb_suffix().
AddSrgbSuffix ==
    /\ op = "idle"
    /\ OnlyFormat
    /\ op' = "add_srgb_suffix"
    /\ result' = add_srgb_suffix(format)
    /\ UNCHANGED <<formatArgs, text>>
    /\ UNCHANGED limitVars

\* A call format.is_srgb().
IsSrgb ==
    /\ op = "idle"
    /\ OnlyFormat
    /\ op' = "is_srgb"
    /\ result' = is_srgb(format)
    /\ UNCHANGED <<formatArgs, text>>
    /\ UNCHANGED limitVars

\* A call format.components_with_aspect(aspect).
ComponentsWithAspect ==
    /\ op = "idle"
    /\ format # NoFormat
    /\ combined_format = NoFormat
    /\ aspect # None
    /\ features = None
    /\ op' = "components_with_aspect"
    /\ result' = components_with_aspect(format, aspect[1])
    /\ UNCHANGED <<formatArgs, text>>
    /\ UNCHANGED limitVars

NextFormat ==
    \/ AspectSpecificFormat
    \/ SampleType
    \/ GuaranteedFormatFeatures
    \/ SupportedSampleCounts
    \/ BlockCopySize
    \/ IsDepthStencilComponent
    \/ Serialize
    \/ Deserialize
    \/ BlockDimensions
    \/ RequiredFeatures
    \/ IsBcn
    \/ Components
    \/ HasDepthAspect
    \/ HasStencilAspect
    \/ RemoveSrgbSuffix
    \/ AddSrgbSuffix
    \/ IsSrgb
    \/ ComponentsWithAspect

SpecFormat == InitFormat /\ [][NextFormat]_vars

----------------------------------------------------------------------------
(* The calls of the extent functions that are explored *)

\* The widths and heights given to physical_size go from 0 to MaxSmall and
\* from u32::MAX - MaxSmall to u32::MAX, besides the powers of two.
MaxSmall == 13

\* The levels given to mip_level_size go from 0 to MaxLevel.
MaxLevel == 33

PhysicalSizeDimensions ==
    {Small(n) : n \in 0..MaxSmall} \cup {FromTop(k) : k \in 0..MaxSmall}
        \cup {U32(0, Half - 1), U32(1, 0), U32(Half \div 2 - 1, Half - 1),
              U32(Half \div 2, 0)}

PhysicalSizeFormats ==
    {Fmt("R8Unorm"), Fmt("Bc1RgbaUnormSrgb"), Fmt("Etc2Rgb8Unorm"),
     Fmt("EacR11Unorm"), Fmt("NV12")}
        \cup {Astc(b, "Unorm") : b \in AstcBlocks}

LayerCounts == {Small(0), Small(1), Small(60), Small(1000), FromTop(0)}

MipDimensions ==
    {Small(0), Small(1), Small(2), Small(3), Small(16), Small(30), Small(60),
     Small(240), U32(0, Half - 1), U32(1, 0), U32(Half \div 2, 0),
     FromTop(0)}

\* The inputs are an extent with a format, or an extent with a dimension and
\* a level.
InitExtent ==
    /\ op = "idle"
    /\ result = None
    /\ NoLimitArgs
    /\ aspect = None
    /\ features = None
    /\ combined_format = NoFormat
    /\ text = NoText
    /\ overflow_checks = FALSE
    /\ \/ /\ extent \in {Extent3d(w, h, d) : w \in PhysicalSizeDimensions,
                                             h \in PhysicalSizeDimensions,
                                             d \in {Small(1), FromTop(0)}}
          /\ format \in PhysicalSizeFormats
          /\ dim = NoDimension
          /\ level = 0
       \/ /\ extent \in {Extent3d(w, h, d) : w \in MipDimensions,
                                             h \in MipDimensions,
                                             d \in LayerCounts}
          /\ format = NoFormat
          /\ dim \in TextureDimensions
          /\ level \in 0..MaxLevel

\* A call extent.physical_size(format), in a build with or without overflow
\* checks.
PhysicalSize ==
    /\ op = "idle"
    /\ format # NoFormat
    /\ dim = NoDimension
    /\ \E b \in BOOLEAN :
         /\ overflow_checks' = b
         /\ result' = physical_size(extent, format, b)
    /\ op' = "physical_size"
    /\ UNCHANGED <<format, aspect, features, combined_format, text>>
    /\ UNCHANGED <<extent, dim, level>>
    /\ UNCHANGED limitVars

\* A call extent.max_mips(dim).
MaxMips ==
    /\ op = "idle"
    /\ dim # NoDimension
    /\ op' = "max_mips"
    /\ result' = max_mips(extent, dim)
    /\ UNCHANGED <<formatArgs, text>>
    /\ UNCHANGED limitVars

\* A call extent.mip_level_size(level, dim), in a build with or without
\* overflow checks.
MipLevelSize ==
    /\ op = "idle"
    /\ dim # NoDimension
    /\ \E b \in BOOLEAN :
         /\ overflow_checks' = b
         /\ result' = mip_level_size(extent, level, dim, b)
    /\ op' = "mip_level_size"
    /\ UNCHANGED <<format, aspect, features, combined_format, text>>
    /\ UNCHANGED <<extent, dim, level>>
    /\ UNCHANGED limitVars

NextExtent == PhysicalSize \/ MaxMips \/ MipLevelSize

SpecExtent == InitExtent /\ [][NextExtent]_vars

----------------------------------------------------------------------------
(* Properties of the format classifiers *)

Float32Tags == {"R32Float", "Rg32Float", "Rgba32Float"}

CombinedDepthStencilTags == {"Depth24PlusStencil8", "Depth32FloatStencil8"}

\* C6: the FILTERABLE flag of guaranteed_format_features(f, caps) is set
\* exactly when sample_type(f, None, Some(caps)) is Float{filterable: true};
\* the combined depth-stencil formats and NV12 are never FILTERABLE.
C6_FilterableConsistency ==
    op = "guaranteed_format_features" =>
        /\ "FILTERABLE" \in result.flags
             <=> sample_type(format, None, features) = Some(Float(TRUE))
        /\ format.tag \in CombinedDepthStencilTags \cup {"NV12"} =>
             /\ sample_type(format, None, features) = None
             /\ "FILTERABLE" \notin result.flags

C6_Witness ==
    /\ op = "guaranteed_format_features"
    /\ format = Fmt("R32Float")
    /\ "FLOAT32_FILTERABLE" \in features[1]
    /\ "FILTERABLE" \in result.flags

\* C7: the BLENDABLE flag is set exactly when sample_type(f, None, None) is
\* Float{filterable: true}; it is the same for any two capability sets,
\* and the 32-bit float formats are never BLENDABLE, also when
\* FLOAT32_FILTERABLE makes them FILTERABLE.
C7_BlendableIgnoresFeatures ==
    op = "guaranteed_format_features" =>
        /\ "BLENDABLE" \in result.flags
             <=> sample_type(format, None, None) = Some(Float(TRUE))
        /\ \A caps \in FeatureSets :
             "BLENDABLE" \in guaranteed_format_features(format, caps).flags
               <=> "BLENDABLE" \in result.flags
        /\ format.tag \in Float32Tags => "BLENDABLE" \notin result.flags

C7_Witness ==
    /\ op = "guaranteed_format_features"
    /\ format = Fmt("Rg32Float")
    /\ "FLOAT32_FILTERABLE" \in features[1]
    /\ "FILTERABLE" \in result.flags
    /\ "BLENDABLE" \notin result.flags

\* C8: for R32Float, Rg32Float and Rgba32Float sample_type returns
\* Float{filterable: b} with b true iff a capability set is supplied and
\* holds FLOAT32_FILTERABLE; for every other format and every aspect the
\* result is the same for any two capability arguments, None included.
C8_SampleTypeCapabilityDependence ==
    op = "sample_type" =>
        IF format.tag \in Float32Tags
        THEN result = Some(Float(/\ features # None
                                 /\ "FLOAT32_FILTERABLE" \in features[1]))
        ELSE \A caps \in OptionFeatures :
               sample_type(format, aspect, caps) = result

C8_Witness ==
    /\ op = "sample_type"
    /\ format = Fmt("Rgba32Float")
    /\ features = None
    /\ aspect = Some("All")
    /\ result = Some(Float(FALSE))

C10_AspectSpecificFormatResolves ==
    op = "aspect_specific_format" =>
        /\ (format.tag = "Depth24PlusStencil8" /\ aspect = Some("DepthOnly"))
             => result = Some(Fmt("Depth24Plus"))
        /\ (format.tag = "Depth32FloatStencil8" /\ aspect = Some("DepthOnly"))
             => result = Some(Fmt("Depth32Float"))
        /\ (/\ format.tag \in CombinedDepthStencilTags
            /\ aspect = Some("StencilOnly"))
             => result = Some(Fmt("Stencil8"))
        /\ (format.tag = "NV12" /\ aspect = Some("Plane0"))
             => result = Some(Fmt("R8Unorm"))
        /\ (format.tag = "NV12" /\ aspect = Some("Plane1"))
             => result = Some(Fmt("Rg8Unorm"))
        /\ (format.tag # "NV12" /\ aspect = Some("All"))
             => result = Some(format)
        /\ (format.tag = "NV12" /\ aspect = Some("All")) => result = None

C10_Witness ==
    /\ op = "aspect_specific_format"
    /\ format = Fmt("Depth24PlusStencil8")
    /\ aspect = Some("DepthOnly")
    /\ result = Some(Fmt("Depth24Plus"))

----------------------------------------------------------------------------
(* Properties of aspect resolution, serialization and the feature table *)

DepthOnlyTags == {"Depth16Unorm", "Depth24Plus", "Depth32Float"}

\* TextureFormat::is_depth_stencil_format
is_depth_stencil_format(self) ==
    self.tag \in {"Stencil8", "Depth16Unorm", "Depth24Plus",
                  "Depth24PlusStencil8", "Depth32Float",
                  "Depth32FloatStencil8"}

\* TextureFormat::has_color_aspect
has_color_aspect(self) == ~is_depth_stencil_format(self)

\* The pairs C11 lists: a combined depth-stencil format with DepthOnly or
\* StencilOnly, NV12 with Plane0 or Plane1, a format that is not
\* multi-planar with All.
C11_ListedPair(f, a) ==
    \/ f.tag \in CombinedDepthStencilTags /\ a \in {"DepthOnly", "StencilOnly"}
    \/ f.tag = "NV12" /\ a \in {"Plane0", "Plane1"}
    \/ f.tag # "NV12" /\ a = "All"

\* A depth-only format with DepthOnly, or Stencil8 with StencilOnly.
C11_OwnAspectPair(f, a) ==
    \/ f.tag \in DepthOnlyTags /\ a = "DepthOnly"
    \/ f.tag = "Stencil8" /\ a = "StencilOnly"

\* C11 as stated: aspect_specific_format returns None for every pair other
\* than the listed ones; in particular a depth-only or stencil-only format
\* with its own single aspect and a color format with DepthOnly resolve to
\* None.
C11_OriginalOnlyListedPairsResolve ==
    op = "aspect_specific_format" =>
        /\ ~C11_ListedPair(format, aspect[1]) => result = None
        /\ C11_OwnAspectPair(format, aspect[1]) => result = None
        /\ (has_color_aspect(format) /\ aspect = Some("DepthOnly")) =>
             result = None

\* C11 amended: aspect_specific_format returns None for every pair other
\* than the listed ones and a depth-only format with DepthOnly or Stencil8
\* with StencilOnly, which resolve to the format itself; a color format
\* with DepthOnly resolves to None.
C11_OnlyListedAndOwnAspectPairsResolve ==
    op = "aspect_specific_format" =>
        /\ (/\ ~C11_ListedPair(format, aspect[1])
            /\ ~C11_OwnAspectPair(format, aspect[1])) => result = None
        /\ C11_OwnAspectPair(format, aspect[1]) => result = Some(format)
        /\ (has_color_aspect(format) /\ aspect = Some("DepthOnly")) =>
             result = None

C11_Witness ==
    /\ op = "aspect_specific_format"
    /\ format = Fmt("Stencil8")
    /\ aspect = Some("StencilOnly")
    /\ result = Some(Fmt("Stencil8"))

\* C12: for each combined depth-stencil format D,
\* aspect_specific_format(D, DepthOnly) and
\* aspect_specific_format(D, StencilOnly) are Some(g) with
\* g.is_depth_stencil_component(D) true; is_depth_stencil_component(g, D) is
\* false for every other g and for every D that is not a combined
\* depth-stencil format.
C12_AspectResolutionClosure ==
    /\ (/\ op = "aspect_specific_format"
        /\ format.tag \in CombinedDepthStencilTags
        /\ aspect \in {Some("DepthOnly"), Some("StencilOnly")}) =>
          /\ result # None
          /\ is_depth_stencil_component(result[1], format)
    /\ op = "is_depth_stencil_component" =>
          (result = TRUE <=>
             /\ combined_format.tag \in CombinedDepthStencilTags
             /\ \E a \in {"DepthOnly", "StencilOnly"} :
                  aspect_specific_format(combined_format, a) = Some(format))

C12_Witness ==
    /\ op = "is_depth_stencil_component"
    /\ format = Fmt("Depth32Float")
    /\ combined_format = Fmt("Depth32FloatStencil8")
    /\ result = TRUE

\* C13: for every TextureFormat f, every ASTC (block, channel) combination
\* included, deserializing the string serialize(f) writes gives f back: no
\* other format serializes to the same string, and the deserializer accepts
\* the string and maps it to f.
C13_SerializeRoundTrip ==
    /\ op = "serialize" =>
         \A g \in TextureFormats : serialize(g) = text => g = format
    /\ op = "round_trip" =>
         /\ text = serialize(format)
         /\ result = Ok(format)

C13_Witness ==
    /\ op = "round_trip"
    /\ format = Astc("B10x10", "UnormSrgb")
    /\ text = "astc-10x10-unorm-srgb"
    /\ result = Ok(format)

\* The strings that are the serialized form of some TextureFormat.
SerializedTokens == {serialize(f) : f \in TextureFormats}

\* C14: deserializing a string that is not the serialized form of a
\* TextureFormat gives the decode error and no format; so do the strings
\* that start with "astc-" and have no second '-', a block token that is
\* not one of the listed WxH tokens, or a channel token other than unorm,
\* unorm-srgb and hdr.
C14_DeserializeRejectsOtherStrings ==
    op = "deserialize" =>
        /\ text \notin SerializedTokens => result = Err
        /\ LET parts == StripPrefix(text, "astc-")
           IN  parts # None =>
                 LET split == SplitOnce(parts[1], "-")
                 IN  /\ split = None => result = Err
                     /\ split # None =>
                          /\ split[1][1] \notin
                               {row[2] : row \in SerializeBlocks} =>
                                 result = Err
                          /\ split[1][2] \notin {"unorm", "unorm-srgb", "hdr"}
                               => result = Err

C14_Witness ==
    /\ op = "deserialize"
    /\ text = "astc-4x4-srgb"
    /\ result = Err

\* C15: Rg11b10Ufloat allows RENDER_ATTACHMENT iff RG11B10UFLOAT_RENDERABLE
\* is enabled, Bgra8Unorm allows STORAGE_BINDING iff BGRA8UNORM_STORAGE is
\* enabled, and for every other format allowed_usages is the same for any
\* two capability sets.
C15_CapabilityConditionalUsages ==
    op = "guaranteed_format_features" =>
        /\ format.tag = "Rg11b10Ufloat" =>
             ("RENDER_ATTACHMENT" \in result.allowed_usages
                <=> "RG11B10UFLOAT_RENDERABLE" \in features[1])
        /\ format.tag = "Bgra8Unorm" =>
             ("STORAGE_BINDING" \in result.allowed_usages
                <=> "BGRA8UNORM_STORAGE" \in features[1])
        /\ format.tag \notin {"Rg11b10Ufloat", "Bgra8Unorm"} =>
             \A caps \in FeatureSets :
               guaranteed_format_features(format, caps).allowed_usages
                 = result.allowed_usages

C15_Witness ==
    /\ op = "guaranteed_format_features"
    /\ format = Fmt("Bgra8Unorm")
    /\ "BGRA8UNORM_STORAGE" \in features[1]
    /\ "STORAGE_BINDING" \in result.allowed_usages

\* The four usage tiers C16 names.
C16_UsageTiers ==
    { {"COPY_SRC", "COPY_DST", "TEXTURE_BINDING"},
      {"COPY_SRC", "COPY_DST", "TEXTURE_BINDING", "RENDER_ATTACHMENT"},
      {"COPY_SRC", "COPY_DST", "TEXTURE_BINDING", "STORAGE_BINDING"},
      {"COPY_SRC", "COPY_DST", "TEXTURE_BINDING", "STORAGE_BINDING",
       "RENDER_ATTACHMENT"} }

\* C16 as stated: for every format and capability set allowed_usages is one
\* of the four usage tiers, so every format has at least COPY_SRC, COPY_DST
\* and TEXTURE_BINDING.
C16_OriginalUsageTiers ==
    op = "guaranteed_format_features" =>
        /\ result.allowed_usages \in C16_UsageTiers
        /\ {"COPY_SRC", "COPY_DST", "TEXTURE_BINDING"}
             \subseteq result.allowed_usages

\* C16 amended: for every format other than NV12 and every capability set
\* allowed_usages is one of the four usage tiers, so the format has at
\* least COPY_SRC, COPY_DST and TEXTURE_BINDING; for NV12 allowed_usages is
\* TEXTURE_BINDING alone.
C16_UsageTiersExceptNV12 ==
    op = "guaranteed_format_features" =>
        IF format.tag = "NV12"
        THEN result.allowed_usages = {"TEXTURE_BINDING"}
        ELSE /\ result.allowed_usages \in C16_UsageTiers
             /\ {"COPY_SRC", "COPY_DST", "TEXTURE_BINDING"}
                  \subseteq result.allowed_usages

C16_Witness ==
    /\ op = "guaranteed_format_features"
    /\ format = Fmt("NV12")
    /\ result.allowed_usages = {"TEXTURE_BINDING"}

\* The flags guaranteed_format_features never sets.
C17_NeverSet ==
    {"MULTISAMPLE_X2", "MULTISAMPLE_X8", "MULTISAMPLE_X16",
     "STORAGE_READ_WRITE"}

\* C17: for every format and capability set the multisample flags of
\* guaranteed_format_features are none, MULTISAMPLE_X4 alone, or
\* MULTISAMPLE_X4 with MULTISAMPLE_RESOLVE; MULTISAMPLE_X2, MULTISAMPLE_X8,
\* MULTISAMPLE_X16 and STORAGE_READ_WRITE are never set; so
\* supported_sample_counts of the flags is [1] or [1, 4].
C17_MultisampleTiers ==
    /\ op = "guaranteed_format_features" =>
         /\ result.flags \ {"FILTERABLE", "BLENDABLE"} \in
              { {}, {"MULTISAMPLE_X4"},
                {"MULTISAMPLE_X4", "MULTISAMPLE_RESOLVE"} }
         /\ result.flags \cap C17_NeverSet = {}
         /\ supported_sample_counts(result.flags) \in {<<1>>, <<1, 4>>}
    /\ op = "supported_sample_counts" =>
         /\ result \in {<<1>>, <<1, 4>>}
         /\ result = <<1, 4>> <=>
              "MULTISAMPLE_X4" \in
                 guaranteed_format_features(format, features[1]).flags

C17_Witness ==
    /\ op = "supported_sample_counts"
    /\ format = Fmt("R8Unorm")
    /\ result = <<1, 4>>

\* The cases in which C18 says block_copy_size returns None.
C18_NoneCase(f, a) ==
    \/ f.tag = "Depth24Plus"
    \/ f.tag = "Depth24PlusStencil8" /\ a # Some("StencilOnly")
    \/ /\ f.tag = "Depth32FloatStencil8"
       /\ a \notin {Some("DepthOnly"), Some("StencilOnly")}
    \/ f.tag = "NV12" /\ a \notin {Some("Plane0"), Some("Plane1")}

\* C18: block_copy_size(f, aspect) is None exactly when f is Depth24Plus, or
\* f is Depth24PlusStencil8 and the aspect is not Some(StencilOnly), or f is
\* Depth32FloatStencil8 and the aspect is neither Some(DepthOnly) nor
\* Some(StencilOnly), or f is NV12 and the aspect is neither Some(Plane0)
\* nor Some(Plane1); for every other format it is Some(size), the same for
\* every aspect argument.
C18_BlockCopySizeNoneCases ==
    op = "block_copy_size" =>
        /\ result = None <=> C18_NoneCase(format, aspect)
        /\ format.tag \notin {"Depth24Plus", "Depth24PlusStencil8",
                              "Depth32FloatStencil8", "NV12"} =>
             /\ result # None
             /\ result[1] \in {1, 2, 4, 8, 16}
             /\ \A a \in OptionAspects :
                  block_copy_size(format, a) = result

C18_Witness ==
    /\ op = "block_copy_size"
    /\ format = Fmt("Depth24PlusStencil8")
    /\ aspect = Some("DepthOnly")
    /\ result = None

C20_SampleTypeNoneOnlyWithoutAspect ==
    op = "sample_type" =>
        (result = None =>
           /\ \/ is_combined_depth_stencil_format(format)
              \/ is_multi_planar_format(format)
           /\ aspect \in {None, Some("All")})

----------------------------------------------------------------------------
(* Properties of required features, components and sRGB suffixes *)

\* The BC formats.
C21_BcTags ==
    {"Bc1RgbaUnorm", "Bc1RgbaUnormSrgb", "Bc2RgbaUnorm", "Bc2RgbaUnormSrgb",
     "Bc3RgbaUnorm", "Bc3RgbaUnormSrgb", "Bc4RUnorm", "Bc4RSnorm",
     "Bc5RgUnorm", "Bc5RgSnorm", "Bc6hRgbUfloat", "Bc6hRgbFloat",
     "Bc7RgbaUnorm", "Bc7RgbaUnormSrgb"}

\* The ETC2 and EAC formats.
C21_Etc2Tags ==
    {"Etc2Rgb8Unorm", "Etc2Rgb8UnormSrgb", "Etc2Rgb8A1Unorm",
     "Etc2Rgb8A1UnormSrgb", "Etc2Rgba8Unorm", "Etc2Rgba8UnormSrgb",
     "EacR11Unorm", "EacR11Snorm", "EacRg11Unorm", "EacRg11Snorm"}

\* The formats that need a feature without being compressed.
C21_FeatureGatedTags ==
    {"Depth32FloatStencil8", "NV12", "R16Unorm", "R16Snorm", "Rg16Unorm",
     "Rg16Snorm", "Rgba16Unorm", "Rgba16Snorm"}

\* C21: required_features(f) holds at most one feature for every format: none
\* for the baseline formats, TEXTURE_COMPRESSION_BC for every BC format,
\* TEXTURE_COMPRESSION_ETC2 for every ETC2 / EAC format,
\* TEXTURE_COMPRESSION_ASTC for ASTC with channel Unorm or UnormSrgb and
\* TEXTURE_COMPRESSION_ASTC_HDR for ASTC with channel Hdr, for every block;
\* is_bcn(f) is true exactly for the BC formats.
C21_AtMostOneRequiredFeature ==
    /\ op = "required_features" =>
         /\ Cardinality(result) <= 1
         /\ format.tag \in C21_BcTags =>
              result = {"TEXTURE_COMPRESSION_BC"}
         /\ format.tag \in C21_Etc2Tags =>
              result = {"TEXTURE_COMPRESSION_ETC2"}
         /\ (format.tag = "Astc" /\ format.channel \in {"Unorm", "UnormSrgb"})
              => result = {"TEXTURE_COMPRESSION_ASTC"}
         /\ (format.tag = "Astc" /\ format.channel = "Hdr")
              => result = {"TEXTURE_COMPRESSION_ASTC_HDR"}
         /\ format.tag \notin C21_BcTags \cup C21_Etc2Tags
                                \cup C21_FeatureGatedTags \cup {"Astc"}
              => result = {}
    /\ op = "is_bcn" => (result = TRUE <=> format.tag \in C21_BcTags)

C21_Witness ==
    /\ op = "required_features"
    /\ format = Astc("B12x12", "Hdr")
    /\ result = {"TEXTURE_COMPRESSION_ASTC_HDR"}

\* C23: components_with_aspect(f, a) lies in 1..4 for every format and
\* aspect; for a combined depth-stencil format it is 1 for DepthOnly and
\* StencilOnly and 2 for any other aspect; for NV12 it is 1 for Plane0, 2 for
\* Plane1 and 3 otherwise; for every other format it is the same for every
\* aspect; components(f) is components_with_aspect(f, All).
C23_ComponentsWithAspect ==
    /\ op = "components_with_aspect" =>
         /\ result \in 1..4
         /\ format.tag \in CombinedDepthStencilTags =>
              result = IF aspect \in {Some("DepthOnly"), Some("StencilOnly")}
                       THEN 1 ELSE 2
         /\ format.tag = "NV12" =>
              result = CASE aspect = Some("Plane0") -> 1
                         [] aspect = Some("Plane1") -> 2
                         [] OTHER -> 3
         /\ format.tag \notin CombinedDepthStencilTags \cup {"NV12"} =>
              \A a \in TextureAspects :
                components_with_aspect(format, a) = result
    /\ op = "components" =>
         /\ result \in 1..4
         /\ result = components_with_aspect(format, "All")

C23_Witness ==
    /\ op = "components_with_aspect"
    /\ format = Fmt("Depth24PlusStencil8")
    /\ aspect = Some("StencilOnly")
    /\ result = 1

\* C28: for every format and feature sets A, B with A a subset of B, the
\* allowed usages and the flags of guaranteed_format_features(f, A) are
\* subsets of those of guaranteed_format_features(f, B).
C28_CapabilityMonotonicity ==
    op = "guaranteed_format_features" =>
        \A B \in FeatureSets :
          features[1] \subseteq B =>
            /\ result.allowed_usages
                 \subseteq guaranteed_format_features(format, B).allowed_usages
            /\ result.flags
                 \subseteq guaranteed_format_features(format, B).flags

C28_Witness ==
    /\ op = "guaranteed_format_features"
    /\ format = Fmt("Rg11b10Ufloat")
    /\ features = Some({})
    /\ "RENDER_ATTACHMENT" \notin result.allowed_usages
    /\ "RENDER_ATTACHMENT" \in
         guaranteed_format_features(
             format, {"RG11B10UFLOAT_RENDERABLE"}).allowed_usages

\* C29: for every format f and aspect a among DepthOnly, StencilOnly,
\* Plane0, Plane1 with aspect_specific_format(f, a) = Some(g),
\* block_copy_size(f, Some(a)) = block_copy_size(g, None) and
\* components_with_aspect(f, a) = components(g); aspect_specific_format(f,
\* DepthOnly) is Some iff has_depth_aspect(f), and
\* aspect_specific_format(f, StencilOnly) is Some iff has_stencil_aspect(f).
C29_AspectTablesAgreeWithResolver ==
    /\ (/\ op = "aspect_specific_format"
        /\ aspect[1] \in {"DepthOnly", "StencilOnly", "Plane0", "Plane1"}
        /\ result # None) =>
          /\ block_copy_size(format, aspect)
               = block_copy_size(result[1], None)
          /\ components_with_aspect(format, aspect[1])
               = components(result[1])
    /\ op = "has_depth_aspect" =>
          (result = TRUE
             <=> aspect_specific_format(format, "DepthOnly") # None)
    /\ op = "has_stencil_aspect" =>
          (result = TRUE
             <=> aspect_specific_format(format, "StencilOnly") # None)

C29_Witness ==
    /\ op = "aspect_specific_format"
    /\ format = Fmt("NV12")
    /\ aspect = Some("Plane1")
    /\ result = Some(Fmt("Rg8Unorm"))
    /\ block_copy_size(format, aspect) = Some(2)
    /\ components_with_aspect(format, "Plane1") = 2

\* C30: for every format f, remove_srgb_suffix(add_srgb_suffix(f)) =
\* remove_srgb_suffix(f), add_srgb_suffix(remove_srgb_suffix(f)) =
\* add_srgb_suffix(f), either operation applied twice is the operation
\* applied once, is_srgb(f) holds iff remove_srgb_suffix(f) # f, and then
\* add_srgb_suffix(remove_srgb_suffix(f)) = f; both operations keep
\* block_dimensions and the ASTC block.
C30_SrgbSuffixInverse ==
    /\ op = "add_srgb_suffix" =>
         /\ remove_srgb_suffix(result) = remove_srgb_suffix(format)
         /\ add_srgb_suffix(result) = result
         /\ block_dimensions(result) = block_dimensions(format)
         /\ result.block = format.block
    /\ op = "remove_srgb_suffix" =>
         /\ add_srgb_suffix(result) = add_srgb_suffix(format)
         /\ remove_srgb_suffix(result) = result
         /\ block_dimensions(result) = block_dimensions(format)
         /\ result.block = format.block
    /\ op = "is_srgb" =>
         /\ result = TRUE <=> remove_srgb_suffix(format) # format
         /\ result = TRUE =>
              add_srgb_suffix(remove_srgb_suffix(format)) = format

C30_Witness ==
    /\ op = "remove_srgb_suffix"
    /\ format = Astc("B8x5", "UnormSrgb")
    /\ result = Astc("B8x5", "Unorm")
    /\ add_srgb_suffix(result) = format

----------------------------------------------------------------------------
(* Properties of the Limit Comparator: directions, presets, transitivity *)

\* The fields documented 'Higher is "better"': the max_* fields other than
\* max_subgroup_size, and min_subgroup_size.
C24_HigherIsBetter == MaxFields \cup {"min_subgroup_size"}

\* The fields documented 'Lower is "better"'.
C24_LowerIsBetter == AlignmentFields \cup {"max_subgroup_size"}

\* The subgroup fields count when both requested sizes are non-zero.
C24_Considered(f) ==
    f \in SubgroupFields => BothSubgroupSizesNonZero(requested)

\* C24: check_limits is false when a field documented 'Higher is "better"'
\* is requested above what is allowed, and when a field documented 'Lower is
\* "better"' is requested below what is allowed; the subgroup fields count
\* when both requested subgroup sizes are non-zero.
C24_RejectsBetterThanAllowed ==
    op = "check_limits" =>
        /\ \A f \in C24_HigherIsBetter :
             (C24_Considered(f) /\ requested[f] > allowed[f]) =>
               within = FALSE
        /\ \A f \in C24_LowerIsBetter :
             (C24_Considered(f) /\ requested[f] < allowed[f]) =>
               within = FALSE

\* The pairs of presets C25 compares.
C25_PresetPair ==
    \/ requested = downlevel_webgl2_defaults /\ allowed = downlevel_defaults
    \/ requested = downlevel_defaults /\ allowed = defaults
    \/ requested = downlevel_webgl2_defaults /\ allowed = defaults

\* C25: check_limits of downlevel_webgl2_defaults against
\* downlevel_defaults, of downlevel_defaults against the default limits and
\* of downlevel_webgl2_defaults against the default limits is true, and the
\* non-fatal mode reports no field.
C25_PresetsOrdered ==
    /\ (op = "check_limits" /\ C25_PresetPair) => within = TRUE
    /\ (op = "check_limits_with_fail_fn" /\ C25_PresetPair) =>
         reports = <<>>

C25_Witness ==
    /\ op = "check_limits_with_fail_fn"
    /\ fatal = FALSE
    /\ requested = downlevel_webgl2_defaults
    /\ allowed = downlevel_defaults
    /\ requested # allowed
    /\ reports = <<>>

\* The third Limits values of C27: UniformLimits with any subgroup sizes.
C27_Thirds == AllowedInputs(UniformLimits)

\* C27 as stated: for all Limits a, b, c, zero subgroup sizes included, if
\* check_limits(a, b) and check_limits(b, c) are true then check_limits(a, c)
\* is true.
C27_OriginalTransitive ==
    (op = "check_limits" /\ within = TRUE) =>
        \A c \in C27_Thirds :
          check_limits(allowed, c) => check_limits(requested, c)

\* C27 amended: for all Limits a, b, c such that both subgroup sizes of b
\* are non-zero or a subgroup size of a is zero, if check_limits(a, b) and
\* check_limits(b, c) are true then check_limits(a, c) is true.
C27_TransitiveUnlessMiddleSkipsSubgroup ==
    (/\ op = "check_limits"
     /\ within = TRUE
     /\ \/ BothSubgroupSizesNonZero(allowed)
        \/ ~BothSubgroupSizesNonZero(requested)) =>
        \A c \in C27_Thirds :
          check_limits(allowed, c) => check_limits(requested, c)

C27_Witness ==
    /\ op = "check_limits"
    /\ within = TRUE
    /\ requested # allowed
    /\ BothSubgroupSizesNonZero(requested)
    /\ BothSubgroupSizesNonZero(allowed)
    /\ \E c \in C27_Thirds :
         /\ c # allowed
         /\ check_limits(allowed, c)
         /\ check_limits(requested, c)

----------------------------------------------------------------------------
(* Properties of Extent3d *)

\* The value returned is an extent, not a panic.
IsExtent(r) == DOMAIN r = {"width", "height", "depth_or_array_layers"}

\* v is a multiple of the block dimension b.
C22_MultipleOf(v, b) == U32Mul(U32Div(v, b), b).value = v

\* r is the smallest multiple of b that is >= x.
C22_RoundedUp(x, r, b) ==
    /\ C22_MultipleOf(r, b)
    /\ U32LessEq(x, r)
    /\ U32Less(U32Sub(r, x).value, Small(b))
    /\ C22_MultipleOf(x, b) => r = x

\* The decimal numeral of a block dimension.
C22_Numeral(n) ==
    CASE n = 4 -> "4" [] n = 5 -> "5" [] n = 6 -> "6" [] n = 8 -> "8"
      [] n = 10 -> "10" [] n = 12 -> "12"

\* The formats with a block of 4x4 texels: BC, ETC2 and EAC.
C22_FourByFourTags == C21_BcTags \cup C21_Etc2Tags

\* C22: for every u32 extent and every format, physical_size returns the
\* width and the height rounded up to the smallest multiple of the format's
\* block width and block height that is >= the input (unchanged when already
\* aligned, never smaller than the input) and leaves depth_or_array_layers
\* unchanged; block_dimensions is (1, 1) for the uncompressed formats, (4, 4)
\* for BC / ETC2 / EAC and (W, H) for the ASTC block BWxH, so 7x7 becomes
\* 8x10 for ASTC 8x5 and 8x8 for a BC format.
C22_PhysicalSizeRoundsUp ==
    /\ \A f \in TextureFormats :
         LET bd == block_dimensions(f)
         IN  CASE f.tag = "Astc" ->
                    f.block = "B" \o C22_Numeral(bd[1]) \o "x"
                                  \o C22_Numeral(bd[2])
               [] f.tag \in C22_FourByFourTags -> bd = <<4, 4>>
               [] OTHER -> bd = <<1, 1>>
    /\ op = "physical_size" =>
         LET bd == block_dimensions(format)
         IN  /\ IsExtent(result)
             /\ C22_RoundedUp(extent.width, result.width, bd[1])
             /\ C22_RoundedUp(extent.height, result.height, bd[2])
             /\ result.depth_or_array_layers = extent.depth_or_array_layers
    /\ ( /\ op = "physical_size"
         /\ extent.width = Small(7)
         /\ extent.height = Small(7) ) =>
           /\ (format.tag = "Astc" /\ format.block = "B8x5") =>
                /\ IsExtent(result)
                /\ result.width = Small(8)
                /\ result.height = Small(10)
           /\ format.tag \in C21_BcTags =>
                /\ IsExtent(result)
                /\ result.width = Small(8)
                /\ result.height = Small(8)

\* 2^k as a u32, for 0 <= k < 32.
C26_Pow2(k) == IF k < 16 THEN U32(0, 2 ^ k) ELSE U32(2 ^ (k - 16), 0)

\* n is the bit length of m: 0 for 0, else 2^(n-1) <= m < 2^n.
C26_BitLength(m, n) ==
    IF m = Small(0) THEN n = 0
    ELSE /\ n \in 1..32
         /\ U32LessEq(C26_Pow2(n - 1), m)
         /\ n < 32 => U32Less(m, C26_Pow2(n))

\* The dimensions of r that mip_level_size shifts under dim_.
C26_Mipped(r, dim_) ==
    IF dim_ = "D3" THEN {r.width, r.height, r.depth_or_array_layers}
    ELSE {r.width, r.height}

====
